---- MODULE Spec2Model ----
(***************************************************************************)
(* Model of friendlycode's scoring aggregator (src/scoring.ts) and import  *)
(* graph builder (src/analyzers/static/explicitness.ts).                   *)
(*                                                                         *)
(* Numbers.  A sub-issue score s in [0,1] is held as the integer 100*s     *)
(* (0.79 is 79); category scores, the overall score and recommendation     *)
(* impacts, which the code rounds to two decimals with                     *)
(* Math.round(x * 100) / 100, are held as the integer 100*x.  Math.round   *)
(* rounds half up (towards +infinity); Round below is that function on a   *)
(* fraction num/den.                                                        *)
(***************************************************************************)
EXTENDS Integers, Sequences, FiniteSets, TLC

VARIABLES
    subIssueResults,  \* the SubIssueResult[] handed to aggregateScores
    extra,            \* how many results were appended to the base list
    runs,             \* one record per call of aggregateScores: argument and returned value
    files,            \* project.getSourceFiles(): SourceFile records, in project order
    graph,            \* <<g>> once buildImportGraph has returned the ImportGraph g, <<>> before
    analysis,         \* <<a>> once analyzeImportGraph has returned: what its analyzers recorded
    scan              \* scan(): the analyzers still to run, those that threw, the phase reached

vars == <<subIssueResults, extra, runs, files, graph, analysis, scan>>

----------------------------------------------------------------------------
(* Generic helpers *)

Range(s) == {s[i] : i \in DOMAIN s}

RECURSIVE SumSeq(_)
SumSeq(s) == IF s = <<>> THEN 0 ELSE Head(s) + SumSeq(Tail(s))

RECURSIVE Flatten(_)
Flatten(ss) == IF ss = <<>> THEN <<>> ELSE Head(ss) \o Flatten(Tail(ss))

\* TRUE.  An operator's argument is evaluated where it is first used; a loop
\* of the code is a recursion here, and a state handed from call to call
\* unevaluated is evaluated at the bottom of the recursion, all at once.
\* Evaluated(v) has v evaluated before the next call.
Evaluated(v) == v = v

\* Array.prototype.slice(0, n)
Slice(s, n) == SubSeq(s, 1, IF Len(s) < n THEN Len(s) ELSE n)

\* Math.round(num / den) for den > 0: the nearest integer, halves going up
Round(num, den) == (2 * num + den) \div (2 * den)

----------------------------------------------------------------------------
(* The rubric: src/config.ts.  description and categoryId (which repeats   *)
(* the category's id) are read by nothing modelled here and are left out.  *)

categories == <<
    [id |-> 1, name |-> "Consistent Patterns",
     subIssues |-> <<
          [id |-> "1.1", name |-> "Structural consistency across similar files", analysisType |-> "llm"],
          [id |-> "1.2", name |-> "Consistent error handling", analysisType |-> "llm"],
          [id |-> "1.3", name |-> "Naming convention consistency", analysisType |-> "static"],
          [id |-> "1.4", name |-> "Consistent API patterns", analysisType |-> "llm"],
          [id |-> "1.5", name |-> "Test pattern consistency", analysisType |-> "static"] >>],
    [id |-> 2, name |-> "Explicit Over Implicit",
     subIssues |-> <<
          [id |-> "2.1", name |-> "Metaprogramming avoidance", analysisType |-> "static"],
          [id |-> "2.2", name |-> "Decorator count", analysisType |-> "static"],
          [id |-> "2.3", name |-> "Implicit dependency injection", analysisType |-> "llm"],
          [id |-> "2.4", name |-> "Convention-based routing", analysisType |-> "llm"],
          [id |-> "2.5", name |-> "Prototype mutation", analysisType |-> "static"],
          [id |-> "2.6", name |-> "Dynamic property access", analysisType |-> "static"] >>],
    [id |-> 3, name |-> "Strong Typing",
     subIssues |-> <<
          [id |-> "3.1", name |-> "any type usage", analysisType |-> "static"],
          [id |-> "3.2", name |-> "Untyped function signatures", analysisType |-> "static"],
          [id |-> "3.4", name |-> "Domain entity types", analysisType |-> "llm"],
          [id |-> "3.5", name |-> "Type assertions", analysisType |-> "static"],
          [id |-> "3.6", name |-> "Typed config objects", analysisType |-> "llm"] >>],
    [id |-> 4, name |-> "Predictable File Structure",
     subIssues |-> <<
          [id |-> "4.1", name |-> "Domain organization", analysisType |-> "llm"],
          [id |-> "4.2", name |-> "File naming conventions", analysisType |-> "llm"],
          [id |-> "4.3", name |-> "Test colocation", analysisType |-> "static"],
          [id |-> "4.4", name |-> "File length", analysisType |-> "static"],
          [id |-> "4.5", name |-> "Directory nesting depth", analysisType |-> "static"],
          [id |-> "4.6", name |-> "Exports per file", analysisType |-> "static"] >>],
    [id |-> 5, name |-> "Small Focused Units",
     subIssues |-> <<
          [id |-> "5.1", name |-> "Function length", analysisType |-> "static"],
          [id |-> "5.2", name |-> "Parameter count", analysisType |-> "static"],
          [id |-> "5.3", name |-> "Boolean parameters", analysisType |-> "static"],
          [id |-> "5.4", name |-> "Single responsibility", analysisType |-> "llm"],
          [id |-> "5.5", name |-> "Module focus", analysisType |-> "llm"],
          [id |-> "5.6", name |-> "Nesting depth", analysisType |-> "static"] >>],
    [id |-> 6, name |-> "Clean Signal-to-Noise",
     subIssues |-> <<
          [id |-> "6.1", name |-> "Dead exports", analysisType |-> "static"],
          [id |-> "6.2", name |-> "Commented-out code", analysisType |-> "static"],
          [id |-> "6.3", name |-> "Unnecessary duplication", analysisType |-> "llm"],
          [id |-> "6.4", name |-> "Stale TODOs", analysisType |-> "static"],
          [id |-> "6.5", name |-> "Boilerplate ratio", analysisType |-> "llm"],
          [id |-> "6.6", name |-> "Unnecessary abstraction", analysisType |-> "llm"],
          [id |-> "6.7", name |-> "Config minimality", analysisType |-> "llm"] >>],
    [id |-> 7, name |-> "Good Naming",
     subIssues |-> <<
          [id |-> "7.1", name |-> "Descriptive names", analysisType |-> "llm"],
          [id |-> "7.2", name |-> "Name uniqueness", analysisType |-> "static"],
          [id |-> "7.3", name |-> "Boolean variable prefixes", analysisType |-> "static"],
          [id |-> "7.4", name |-> "Function verb prefixes", analysisType |-> "static"],
          [id |-> "7.5", name |-> "Short identifiers", analysisType |-> "static"],
          [id |-> "7.6", name |-> "Consistent domain language", analysisType |-> "llm"] >>],
    [id |-> 8, name |-> "Architectural Documentation",
     subIssues |-> <<
          [id |-> "8.1", name |-> "README/CLAUDE.md existence", analysisType |-> "static"],
          [id |-> "8.2", name |-> "Documented conventions", analysisType |-> "llm"],
          [id |-> "8.3", name |-> "Documented business rules", analysisType |-> "llm"],
          [id |-> "8.4", name |-> "Documented data flow", analysisType |-> "llm"],
          [id |-> "8.5", name |-> "Migration context", analysisType |-> "llm"],
          [id |-> "8.6", name |-> "Docs close to code", analysisType |-> "llm"] >>],
    [id |-> 9, name |-> "Tests",
     subIssues |-> <<
          [id |-> "9.1", name |-> "Tests as documentation", analysisType |-> "llm"],
          [id |-> "9.2", name |-> "Test file existence ratio", analysisType |-> "static"],
          [id |-> "9.3", name |-> "Test determinism", analysisType |-> "llm"],
          [id |-> "9.4", name |-> "Test isolation", analysisType |-> "llm"],
          [id |-> "9.5", name |-> "Test description quality", analysisType |-> "static"],
          [id |-> "9.6", name |-> "Fixture simplicity", analysisType |-> "llm"],
          [id |-> "9.7", name |-> "Edge case coverage", analysisType |-> "llm"] >>],
    [id |-> 10, name |-> "Shallow Dependencies",
     subIssues |-> <<
          [id |-> "10.1", name |-> "Inheritance depth", analysisType |-> "static"],
          [id |-> "10.3", name |-> "Circular dependencies", analysisType |-> "static"],
          [id |-> "10.4", name |-> "Barrel file count", analysisType |-> "static"],
          [id |-> "10.5", name |-> "Cross-module side effects", analysisType |-> "llm"],
          [id |-> "10.6", name |-> "Max import depth", analysisType |-> "static"],
          [id |-> "10.7", name |-> "Files per feature", analysisType |-> "static"] >>] >>

\* all rubric sub-issue definitions, in rubric order
RubricSubIssues == Flatten([c \in DOMAIN categories |-> categories[c].subIssues])

RubricIds == {si.id : si \in Range(RubricSubIssues)}

----------------------------------------------------------------------------
(* src/analyzers/types.ts.  A Finding is [file, line, message]; line 0 is  *)
(* an absent line, file "" an empty file name.  A SubIssueResult is        *)
(* [id, score, excluded, findings, summary]; an absent excluded flag is    *)
(* FALSE (the code only ever tests !si.excluded).                          *)

Undefined == "undefined"

NoLine == 0

SubIssueResult(id, score, excluded, findings, summary) ==
    [id |-> id, score |-> score, excluded |-> excluded,
     findings |-> findings, summary |-> summary]

----------------------------------------------------------------------------
(* src/scoring.ts *)

\* getSubIssueName: the rubric name of id, or id itself when the rubric has none
getSubIssueName(id) ==
    IF id \in RubricIds
    THEN (CHOOSE si \in Range(RubricSubIssues) : si.id = id).name
    ELSE id

\* resultMap after the loop of lines 9-12: Map.set keeps the last result of each id
resultMap(rs) ==
    [id \in {rs[i].id : i \in DOMAIN rs} |->
        LET at == {i \in DOMAIN rs : rs[i].id = id}
            last == CHOOSE i \in at : \A j \in at : j <= i
        IN  rs[last]]

\* resolve with a placeholder that counts as evaluated (excluded left out)
resolve_PlaceholderCounted(map, si) ==
    IF si.id \in DOMAIN map
    THEN map[si.id]
    ELSE SubIssueResult(si.id, 0, FALSE, <<>>, "Not evaluated")

\* lines 20-26: resultMap.get(si.id) ?? { placeholder }
resolve(map, si) ==
    IF si.id \in DOMAIN map
    THEN map[si.id]
    ELSE SubIssueResult(si.id, 0, TRUE, <<>>, "Not evaluated")

NotExcluded(si) == ~si.excluded

\* categoryScore with pointsPerSubIssue = 10 / subIssues.length: the points are
\* split over all sub-issues of the category, excluded ones too
categoryScore_SplitOverAll(subIssues) ==
    LET evaluated == SelectSeq(subIssues, NotExcluded)
    IN  IF Len(evaluated) > 0
        THEN Round(10 * SumSeq([i \in DOMAIN evaluated |-> evaluated[i].score]),
                   Len(subIssues))
        ELSE Round(0, 1)

\* categoryScore that, with nothing evaluated, scores the excluded sub-issues
\* instead of returning 0
categoryScore_NoZeroBranch(subIssues) ==
    LET evaluated == SelectSeq(subIssues, NotExcluded)
        scored == IF Len(evaluated) > 0 THEN evaluated ELSE subIssues
    IN  Round(10 * SumSeq([i \in DOMAIN scored |-> scored[i].score]), Len(scored))

\* categoryScore with subIssues.reduce in place of evaluated.reduce: excluded
\* scores are added to the sum
categoryScore_SumsExcluded(subIssues) ==
    LET evaluated == SelectSeq(subIssues, NotExcluded)
    IN  IF Len(evaluated) > 0
        THEN Round(10 * SumSeq([i \in DOMAIN subIssues |-> subIssues[i].score]),
                   Len(evaluated))
        ELSE Round(0, 1)

\* lines 31-38 and 43: the category's score, rounded to two decimals
categoryScore(subIssues) ==
    LET evaluated == SelectSeq(subIssues, NotExcluded)
    IN  IF Len(evaluated) > 0
        THEN Round(10 * SumSeq([i \in DOMAIN evaluated |-> evaluated[i].score]),
                   Len(evaluated))
        ELSE Round(0, 1)

\* lines 16-46: one CategoryResult per rubric category
categoryResult(map, cat) ==
    LET subIssues == [j \in DOMAIN cat.subIssues |-> resolve(map, cat.subIssues[j])]
    IN  [id |-> cat.id, name |-> cat.name,
         score |-> categoryScore(subIssues), subIssues |-> subIssues]

\* lines 63-86: the recommendation pushed for one evaluated sub-issue below 0.8
recommendation(cat, si, n) ==
    LET impact == Round((100 - si.score) * 10, n)
    IN  IF Len(si.findings) > 0
        THEN LET topFinding == si.findings[1]
             IN  [priority |-> 0, category |-> cat.name,
                  subIssue |-> getSubIssueName(si.id),
                  message |-> topFinding.message,
                  file |-> IF topFinding.file = "" THEN Undefined ELSE topFinding.file,
                  line |-> topFinding.line,
                  impact |-> impact]
        ELSE [priority |-> 0, category |-> cat.name,
              subIssue |-> getSubIssueName(si.id),
              message |-> si.summary,
              file |-> Undefined, line |-> NoLine,
              impact |-> impact]

\* the skip test written with > in place of >=
GoodEnough_Strict(si) == si.score > 80

\* line 61: if (si.score >= 0.8) continue
GoodEnough(si) == si.score >= 80

NeedsWork(si) == ~GoodEnough(si)

\* the potential gain computed from cat.subIssues.length, the category's size in
\* the rubric, in place of evaluated.length
categoryRecommendations_RubricN(cat) ==
    LET evaluated == SelectSeq(cat.subIssues, NotExcluded)
        low == SelectSeq(evaluated, NeedsWork)
    IN  [i \in DOMAIN low |-> recommendation(cat, low[i], Len(cat.subIssues))]

\* lines 58-88 for one category
categoryRecommendations(cat) ==
    LET evaluated == SelectSeq(cat.subIssues, NotExcluded)
        low == SelectSeq(evaluated, NeedsWork)
    IN  [i \in DOMAIN low |-> recommendation(cat, low[i], Len(evaluated))]

\* line 91: recommendations.sort((a, b) => b.impact - a.impact).  The comparator
\* puts the larger impact first and the sort is stable, so the result is, for
\* each impact from the largest down, the recommendations of that impact in
\* the order they were pushed.
RECURSIVE sortedByImpacts(_, _)
sortedByImpacts(recs, impacts) ==
    IF impacts = {} THEN <<>>
    ELSE LET top == CHOOSE a \in impacts : \A b \in impacts : b - a <= 0
         IN  SelectSeq(recs, LAMBDA r : r.impact = top)
                 \o sortedByImpacts(recs, impacts \ {top})

\* the comparator written a.impact - b.impact: ascending
sortByImpact_Ascending(recs) ==
    LET RECURSIVE ascending(_)
        ascending(impacts) ==
            IF impacts = {} THEN <<>>
            ELSE LET low == CHOOSE a \in impacts : \A b \in impacts : a - b <= 0
                 IN  SelectSeq(recs, LAMBDA r : r.impact = low)
                         \o ascending(impacts \ {low})
    IN  ascending({recs[i].impact : i \in DOMAIN recs})

sortByImpact(recs) == sortedByImpacts(recs, {recs[i].impact : i \in DOMAIN recs})

\* lines 94-96: r.priority = i + 1 (i counted from 0)
assignPriority(recs) == [i \in DOMAIN recs |-> [recs[i] EXCEPT !.priority = i]]

MaxRecommendations == 30

\* slice(0, 30) applied to the pooled list before it is sorted
generateRecommendations_SliceFirst(categoryResults) ==
    LET pooled == Flatten([c \in DOMAIN categoryResults |->
                              categoryRecommendations(categoryResults[c])])
    IN  assignPriority(sortByImpact(Slice(pooled, MaxRecommendations)))

generateRecommendations(categoryResults) ==
    LET pooled == Flatten([c \in DOMAIN categoryResults |->
                              categoryRecommendations(categoryResults[c])])
    IN  Slice(assignPriority(sortByImpact(pooled)), MaxRecommendations)

aggregateScores(rs) ==
    LET map == resultMap(rs)
        categoryResults == [c \in DOMAIN categories |-> categoryResult(map, categories[c])]
        overallScore == Round(SumSeq([c \in DOMAIN categoryResults |->
                                         categoryResults[c].score]), 1)
    IN  [categories |-> categoryResults,
         overallScore |-> overallScore,
         recommendations |-> generateRecommendations(categoryResults)]

----------------------------------------------------------------------------
(* src/analyzers/static/explicitness.ts: the import graph.                 *)
(*                                                                         *)
(* A path is the sequence of its segments ("/repo/lib/a.ts" is             *)
(* <<"repo", "lib", "a.ts">>).  A SourceFile is [path, imports], imports   *)
(* being its import declarations in source order; an ImportDeclaration is  *)
(* [moduleSpecifier, sourceFile]: the specifier's segments and the path of *)
(* the file ts-morph resolves it to, NoFile when it resolves to none.      *)
(* A Set is the sequence of its elements in insertion order, a Map is      *)
(* [keys, val]: the keys in insertion order and the value of each key.     *)

NoGraph == <<>>

\* analyzeImportGraph has not returned
NoAnalysis == <<>>

\* scan() has not been called
NoScan == <<>>

NoFile == <<>>

rootPath == <<"repo">>

\* Set.prototype.add
SetAdd(set, x) == IF x \in Range(set) THEN set ELSE Append(set, x)

EmptyMap == [keys |-> <<>>, val |-> <<>>]

\* Map.prototype.set: a new key goes last, a known key keeps its place
MapSet(map, key, value) ==
    [keys |-> SetAdd(map.keys, key),
     val |-> (key :> value) @@ map.val]

\* how many leading segments from and to share
RECURSIVE CommonPrefix(_, _)
CommonPrefix(from, to) ==
    IF from # <<>> /\ to # <<>> /\ Head(from) = Head(to)
    THEN 1 + CommonPrefix(Tail(from), Tail(to))
    ELSE 0

\* path.relative(from, to): one ".." for each segment of from that to does not
\* share, then the rest of to
relative(from, to) ==
    LET shared == CommonPrefix(from, to)
    IN  [i \in 1..(Len(from) - shared) |-> ".."] \o SubSeq(to, shared + 1, Len(to))

\* moduleSpecifier.startsWith("."): the first segment of "./b" is ".", that of
\* "../lib/a" is ".."
StartsWithDot(moduleSpecifier) ==
    moduleSpecifier # <<>> /\ Head(moduleSpecifier) \in {".", ".."}

\* lines 206-217: the Set imports after the first k import declarations
RECURSIVE importsAfter(_, _)
importsAfter(decls, k) ==
    IF k = 0 THEN <<>>
    ELSE LET imports == importsAfter(decls, k - 1)
             imp == decls[k]
         IN  IF StartsWithDot(imp.moduleSpecifier) /\ imp.sourceFile # NoFile
             THEN SetAdd(imports, relative(rootPath, imp.sourceFile))
             ELSE imports

\* lines 204-220: graph after the first k files
RECURSIVE graphAfter(_, _)
graphAfter(sourceFiles, k) ==
    IF k = 0 THEN EmptyMap
    ELSE LET before == graphAfter(sourceFiles, k - 1)
         IN  CASE Evaluated(before) ->
                 MapSet(before, relative(rootPath, sourceFiles[k].path),
                        importsAfter(sourceFiles[k].imports, Len(sourceFiles[k].imports)))

\* graph.set(relPath, imports) done for files that import something only
RECURSIVE graphAfter_SkipsEmpty(_, _)
graphAfter_SkipsEmpty(sourceFiles, k) ==
    IF k = 0 THEN EmptyMap
    ELSE LET imports == importsAfter(sourceFiles[k].imports, Len(sourceFiles[k].imports))
         IN  IF imports = <<>>
             THEN graphAfter_SkipsEmpty(sourceFiles, k - 1)
             ELSE MapSet(graphAfter_SkipsEmpty(sourceFiles, k - 1),
                         relative(rootPath, sourceFiles[k].path), imports)

buildImportGraph_SkipsEmpty(sourceFiles) ==
    graphAfter_SkipsEmpty(sourceFiles, Len(sourceFiles))

buildImportGraph(sourceFiles) == graphAfter(sourceFiles, Len(sourceFiles))

----------------------------------------------------------------------------
(* Inputs of the aggregator.  A run starts from one of the base result     *)
(* lists below and appends up to MaxExtra further results, which override  *)
(* base results of the same id (Map.set) or carry ids the rubric lacks.    *)
(*                                                                         *)
(* The scores are chosen so that no quantity the code rounds is an exact   *)
(* tie x.xx5: there Math.round's argument, computed in IEEE-754 doubles,   *)
(* can fall on either side ((1 - 0.79) * (10 / 4) * 100 evaluates to       *)
(* 52.49999999999999), and Round, which is exact, would not follow it.     *)
(* With at most 7 sub-issues in a category a tie needs 4 evaluated         *)
(* sub-issues and an odd score among them; NoRoundingTie states that this  *)
(* never happens here.                                                     *)

MaxExtra == 2

MaxRuns == 2

FindingA == [file |-> "src/a.ts", line |-> 3, message |-> "a.ts is too long"]

FindingB == [file |-> "", line |-> NoLine, message |-> "project-wide finding"]

\* every rubric sub-issue evaluated with the same score, no findings
UniformResults(score) ==
    [i \in DOMAIN RubricSubIssues |->
        SubIssueResult(RubricSubIssues[i].id, score, FALSE, <<>>, "uniform")]

\* the evaluator's fallbackResults for every llm sub-issue: excluded, score 0,
\* one finding without a file
FallbackResults ==
    LET llm == SelectSeq(RubricSubIssues, LAMBDA si : si.analysisType = "llm")
    IN  [i \in DOMAIN llm |->
            SubIssueResult(llm[i].id, 0, TRUE, <<FindingB>>, "LLM evaluation failed")]

GradedScores == <<0, 100, 50, 66, 80, 42>>

\* static sub-issues evaluated with scores running through GradedScores, every
\* third one with findings, followed by the llm fallback results
GradedResults ==
    LET static == SelectSeq(RubricSubIssues, LAMBDA si : si.analysisType = "static")
    IN  [i \in DOMAIN static |->
            SubIssueResult(static[i].id, GradedScores[(i % Len(GradedScores)) + 1], FALSE,
                           IF i % 3 = 0 THEN <<FindingA, FindingB>> ELSE <<>>,
                           "graded")]
        \o FallbackResults

BaseInputs ==
    {<<>>, UniformResults(50), UniformResults(100), GradedResults, FallbackResults}

\* The appended results: sub-issues of category 1 (5 sub-issues) and of
\* category 6 (7 sub-issues), and 10.2, which analyzeMiddlewareChains reports
\* and the rubric does not define.
ExtraResults ==
    {SubIssueResult("6.1", 79, FALSE, <<>>, "extra"),
     SubIssueResult("6.1", 80, FALSE, <<>>, "extra"),
     SubIssueResult("6.1", 42, FALSE, <<>>, "extra"),
     SubIssueResult("6.1", 79, TRUE, <<>>, "extra"),
     SubIssueResult("6.1", 120, FALSE, <<>>, "out of range"),
     SubIssueResult("6.2", 79, FALSE, <<FindingB, FindingA>>, "extra"),
     SubIssueResult("1.1", 42, FALSE, <<>>, "extra"),
     SubIssueResult("1.1", 42, TRUE, <<FindingA>>, "extra"),
     SubIssueResult("1.5", 80, FALSE, <<>>, "extra"),
     SubIssueResult("1.5", 0, FALSE, <<FindingA>>, "extra"),
     SubIssueResult("10.2", 42, FALSE, <<>>, "extra")}


----------------------------------------------------------------------------
(* Specification of the aggregator *)

InitScoring ==
    /\ subIssueResults \in BaseInputs
    /\ extra = 0
    /\ runs = <<>>
    /\ files = <<>>
    /\ graph = NoGraph
    /\ analysis = NoAnalysis
    /\ scan = NoScan

\* a further result reaches the list before aggregation
Supply(r) ==
    /\ runs = <<>>
    /\ extra < MaxExtra
    /\ subIssueResults' = Append(subIssueResults, r)
    /\ extra' = extra + 1
    /\ UNCHANGED <<runs, files, graph, analysis, scan>>

\* aggregateScores taking the top finding with si.findings.shift(): every
\* supplied result that yields a recommendation from a finding loses that finding
Aggregate_ShiftsFindings ==
    /\ Len(runs) < MaxRuns
    /\ runs' = Append(runs, [input |-> subIssueResults,
                             output |-> aggregateScores(subIssueResults)])
    /\ subIssueResults' =
           [i \in DOMAIN subIssueResults |->
               LET r == subIssueResults[i]
               IN  IF /\ r.id \in RubricIds
                      /\ resultMap(subIssueResults)[r.id] = r
                      /\ NotExcluded(r) /\ NeedsWork(r) /\ Len(r.findings) > 0
                   THEN [r EXCEPT !.findings = Tail(r.findings)]
                   ELSE r]
    /\ UNCHANGED <<extra, files, graph, analysis, scan>>

\* aggregateScores(subIssueResults): the call reads its argument and returns
\* a fresh object; nothing it is handed is assigned to
Aggregate ==
    /\ Len(runs) < MaxRuns
    /\ runs' = Append(runs, [input |-> subIssueResults,
                             output |-> aggregateScores(subIssueResults)])
    /\ UNCHANGED <<subIssueResults, extra, files, graph, analysis, scan>>

NextScoring ==
    \/ \E r \in ExtraResults : Supply(r)
    \/ Aggregate

Spec == InitScoring /\ [][NextScoring]_vars

----------------------------------------------------------------------------
(* Vocabulary of the properties.  They are stated over the call that has   *)
(* just returned: call.input is the list handed to aggregateScores,        *)
(* call.output what it returned.  Every call is the latest one in the      *)
(* state it returns to, so an invariant over Calls covers all of them.     *)

Calls == IF runs = <<>> THEN {} ELSE {runs[Len(runs)]}

CatIndex == DOMAIN categories

\* the ids the rubric defines for category c, in rubric order
RubricIdsOf(c) == [j \in DOMAIN categories[c].subIssues |-> categories[c].subIssues[j].id]

SuppliedIds(input) == {input[i].id : i \in DOMAIN input}

\* positions of the resolved sub-issues of a category that are not excluded
EvaluatedAt(resolved) == {j \in DOMAIN resolved : ~resolved[j].excluded}

\* 100 * the sum of score * (10/n) over the positions in at, as a fraction over n
PointsTimesN(resolved, at) ==
    10 * SumSeq([j \in DOMAIN resolved |-> IF j \in at THEN resolved[j].score ELSE 0])

\* a rounded quantity num/den is an exact tie between two hundredths
IsTie(num, den) == (2 * num + den) % (2 * den) = 0

\* no category score and no impact of the recorded calls is rounded from a tie
NoRoundingTie ==
    \A call \in Calls : \A c \in CatIndex :
        LET resolved == call.output.categories[c].subIssues
            at == EvaluatedAt(resolved)
            n == Cardinality(at)
        IN  n > 0 =>
                /\ ~IsTie(PointsTimesN(resolved, at), n)
                /\ \A j \in at : ~IsTie((100 - resolved[j].score) * 10, n)

----------------------------------------------------------------------------
(* C1: for every category with n >= 1 resolved sub-issues that are not     *)
(* excluded, the category score is the sum over those sub-issues of        *)
(* score * (10/n), rounded to two decimals; excluded sub-issues add        *)
(* nothing and are not counted in n.  A category whose evaluated           *)
(* sub-issues all score 1.0 gets exactly 10.00.                            *)
C1_CategoryScore ==
    \A call \in Calls : \A c \in CatIndex :
        LET cat == call.output.categories[c]
            at == EvaluatedAt(cat.subIssues)
            n == Cardinality(at)
        IN  n >= 1 =>
                /\ cat.score = Round(PointsTimesN(cat.subIssues, at), n)
                /\ (\A j \in at : cat.subIssues[j].score = 100) => cat.score = 1000

\* a call scored a category with some sub-issues excluded (one of them with a
\* score above 0) and the others evaluated with different scores, and another
\* category whose evaluated sub-issues all score 1.0
C1_Witness ==
    \E call \in Calls : \E c, d \in CatIndex :
        LET cat == call.output.categories[c]
            at == EvaluatedAt(cat.subIssues)
            other == call.output.categories[d]
        IN  /\ Cardinality(at) >= 2
            /\ \E j \in DOMAIN cat.subIssues :
                   cat.subIssues[j].excluded /\ cat.subIssues[j].score > 0
            /\ \E j, k \in at : cat.subIssues[j].score # cat.subIssues[k].score
            /\ cat.score \notin {0, 1000}
            /\ EvaluatedAt(other.subIssues) # {}
            /\ \E j \in DOMAIN other.subIssues : other.subIssues[j].excluded
            /\ \A j \in EvaluatedAt(other.subIssues) : other.subIssues[j].score = 100
            /\ other.score = 1000

(* C2: a category in which every resolved sub-issue is excluded scores 0:  *)
(* the call returns (no exception), and the score is the number 0.         *)
C2_AllExcludedScoresZero ==
    \A call \in Calls : \A c \in CatIndex :
        LET cat == call.output.categories[c]
        IN  EvaluatedAt(cat.subIssues) = {} => cat.score = 0

\* a call returned a category whose sub-issues are all excluded, one of them
\* supplied (not a placeholder) with a score above 0
C2_Witness ==
    \E call \in Calls : \E c \in CatIndex :
        LET cat == call.output.categories[c]
        IN  /\ EvaluatedAt(cat.subIssues) = {}
            /\ \E j \in DOMAIN cat.subIssues :
                   /\ cat.subIssues[j].id \in SuppliedIds(call.input)
                   /\ cat.subIssues[j].score > 0
            /\ cat.score = 0

(* C3: a rubric sub-issue id for which no result was supplied is resolved  *)
(* to a placeholder with excluded = true, score 0 and summary "Not         *)
(* evaluated", which is not counted in the category's n; the resolved list *)
(* of a category has exactly one entry per rubric sub-issue, in rubric     *)
(* order.                                                                  *)
C3_MissingIsPlaceholder ==
    \A call \in Calls : \A c \in CatIndex :
        LET cat == call.output.categories[c]
            resolved == cat.subIssues
            supplied == {j \in DOMAIN resolved : resolved[j].id \in SuppliedIds(call.input)}
            counted == {j \in supplied : ~resolved[j].excluded}
        IN  /\ [j \in DOMAIN resolved |-> resolved[j].id] = RubricIdsOf(c)
            /\ \A j \in DOMAIN resolved \ supplied :
                   /\ resolved[j].excluded = TRUE
                   /\ resolved[j].score = 0
                   /\ resolved[j].summary = "Not evaluated"
            /\ cat.score = IF counted = {} THEN 0
                           ELSE Round(PointsTimesN(resolved, counted), Cardinality(counted))

\* a call resolved a category with a missing id next to evaluated ones, and the
\* category scored above 0
C3_Witness ==
    \E call \in Calls : \E c \in CatIndex :
        LET cat == call.output.categories[c]
        IN  /\ \E j \in DOMAIN cat.subIssues :
                   cat.subIssues[j].id \notin SuppliedIds(call.input)
            /\ \E j \in DOMAIN cat.subIssues :
                   /\ cat.subIssues[j].id \in SuppliedIds(call.input)
                   /\ ~cat.subIssues[j].excluded
            /\ cat.score > 0

----------------------------------------------------------------------------
(* Recommendations: vocabulary.  A recommendation carries the names of its *)
(* category and sub-issue; rubric names are unique, so they identify the   *)
(* resolved sub-issue it was generated for.                                *)

\* the positions <<c, j>> of the rubric: category c, j-th sub-issue
RubricPositions == {<<c, j>> : c \in CatIndex, j \in 1..7} \cap
                   {p \in CatIndex \X (1..7) : p[2] \in DOMAIN categories[p[1]].subIssues}

NameAt(p) == categories[p[1]].subIssues[p[2]].name

ResolvedAt(call, p) == call.output.categories[p[1]].subIssues[p[2]]

\* n of the category of position p: its resolved sub-issues that are not excluded
EvaluatedCount(call, p) ==
    Cardinality(EvaluatedAt(call.output.categories[p[1]].subIssues))

\* the rubric position a recommendation was generated for
PositionOf(rec) == CHOOSE p \in RubricPositions : NameAt(p) = rec.subIssue

\* rubric order: category order, then sub-issue order within the category
Earlier(p, q) == p[1] < q[1] \/ (p[1] = q[1] /\ p[2] < q[2])

\* not excluded and scoring strictly less than 0.8
Qualifies(si) == ~si.excluded /\ si.score < 80

QualifyingPositions(call) == {p \in RubricPositions : Qualifies(ResolvedAt(call, p))}

\* the recommendations pushed by lines 58-88 of a call, before sort and slice
Pushed(call) ==
    Flatten([c \in CatIndex |-> categoryRecommendations(call.output.categories[c])])

Min(a, b) == IF a < b THEN a ELSE b

(* C4: a recommendation is generated for a resolved sub-issue if and only  *)
(* if it is not excluded and scores strictly less than 0.8 (0.8 itself      *)
(* yields none, 0.79 yields one, an excluded one never does); the returned *)
(* list holds recommendations of such sub-issues only, and all of them     *)
(* when there are at most 30.                                              *)
C4_RecommendedIffBelowThreshold ==
    \A call \in Calls :
        LET pushedNames == {r.subIssue : r \in Range(Pushed(call))}
            returnedNames == {r.subIssue : r \in Range(call.output.recommendations)}
            qualifying == {NameAt(p) : p \in QualifyingPositions(call)}
        IN  /\ pushedNames = qualifying
            /\ Len(Pushed(call)) = Cardinality(qualifying)
            /\ returnedNames \subseteq qualifying
            /\ Cardinality(qualifying) <= MaxRecommendations => returnedNames = qualifying

\* a call resolved one sub-issue at exactly 0.8 (no recommendation), one at
\* 0.79 (recommended) and an excluded one scoring below 0.8 (no recommendation)
C4_Witness ==
    \E call \in Calls :
        LET returnedNames == {r.subIssue : r \in Range(call.output.recommendations)}
        IN  /\ \E p \in RubricPositions :
                   /\ ResolvedAt(call, p).score = 80 /\ ~ResolvedAt(call, p).excluded
                   /\ NameAt(p) \notin returnedNames
            /\ \E q \in RubricPositions :
                   /\ ResolvedAt(call, q).score = 79 /\ ~ResolvedAt(call, q).excluded
                   /\ NameAt(q) \in returnedNames
            /\ \E x \in RubricPositions :
                   /\ ResolvedAt(call, x).excluded /\ ResolvedAt(call, x).score = 42
                   /\ NameAt(x) \notin returnedNames

(* C5: every recommendation's impact is (1 - score) * (10/n) rounded to    *)
(* two decimals, score being its sub-issue's score and n the number of     *)
(* non-excluded sub-issues of that sub-issue's own category.               *)
C5_ImpactUsesOwnCategoryN ==
    \A call \in Calls : \A i \in DOMAIN call.output.recommendations :
        LET rec == call.output.recommendations[i]
            p == PositionOf(rec)
        IN  /\ rec.subIssue \in {NameAt(q) : q \in RubricPositions}
            /\ rec.category = categories[p[1]].name
            /\ rec.impact = Round((100 - ResolvedAt(call, p).score) * 10,
                                  EvaluatedCount(call, p))

\* a recommendation of a category with fewer evaluated sub-issues than the
\* rubric defines, returned next to one of a category with another n, its impact
\* differing from what the rubric size or the other n would give
C5_Witness ==
    \E call \in Calls : \E i, k \in DOMAIN call.output.recommendations :
        LET rec == call.output.recommendations[i]
            p == PositionOf(rec)
            q == PositionOf(call.output.recommendations[k])
            gain == (100 - ResolvedAt(call, p).score) * 10
        IN  /\ EvaluatedCount(call, p) < Len(categories[p[1]].subIssues)
            /\ EvaluatedCount(call, q) # EvaluatedCount(call, p)
            /\ rec.impact # Round(gain, Len(categories[p[1]].subIssues))
            /\ rec.impact # Round(gain, EvaluatedCount(call, q))
(* C6 as claimed: the returned list is sorted strictly descending by       *)
(* impact, has at most 30 entries, and its priorities are 1..min(30, count) *)
(* in list order, count being the number of qualifying sub-issues.         *)
C6_StrictlyDescending ==
    \A call \in Calls :
        LET recs == call.output.recommendations
        IN  /\ \A i, j \in DOMAIN recs : i < j => recs[i].impact > recs[j].impact
            /\ Len(recs) <= 30
            /\ Len(recs) = Min(30, Cardinality(QualifyingPositions(call)))
            /\ \A i \in DOMAIN recs : recs[i].priority = i

(* C6 amended: the returned list is sorted descending by impact, equal     *)
(* impacts allowed (no entry has a larger impact than an entry before it), *)
(* has at most 30 entries, and its priorities are 1..min(30, count) in     *)
(* list order.                                                             *)
C6_DescendingCappedDense ==
    \A call \in Calls :
        LET recs == call.output.recommendations
        IN  /\ \A i, j \in DOMAIN recs : i < j => recs[i].impact >= recs[j].impact
            /\ Len(recs) <= 30
            /\ Len(recs) = Min(30, Cardinality(QualifyingPositions(call)))
            /\ \A i \in DOMAIN recs : recs[i].priority = i

\* a call with more than 30 qualifying sub-issues returned 30 recommendations,
\* among them two of equal impact and two of different impact, the larger one
\* generated after the smaller one
C6_Witness ==
    \E call \in Calls :
        LET recs == call.output.recommendations
        IN  /\ Cardinality(QualifyingPositions(call)) > 30
            /\ Len(recs) = 30
            /\ \E i \in DOMAIN recs : i < 30 /\ recs[i].impact = recs[i + 1].impact
            /\ \E i, j \in DOMAIN recs :
                   /\ i < j /\ recs[i].impact > recs[j].impact
                   /\ Earlier(PositionOf(recs[j]), PositionOf(recs[i]))

\* the potential gain (1 - score) * (10/n) of the sub-issue at p is larger than
\* that of the one at q (compared as fractions)
GainLarger(call, p, q) ==
    (100 - ResolvedAt(call, p).score) * 10 * EvaluatedCount(call, q)
        > (100 - ResolvedAt(call, q).score) * 10 * EvaluatedCount(call, p)

\* p comes before q in the order "potential gain descending, ties in input order"
BeforeByGain(call, p, q) ==
    \/ GainLarger(call, p, q)
    \/ ~GainLarger(call, q, p) /\ Earlier(p, q)

\* the impact: the potential gain rounded to two decimals
ImpactAt(call, p) ==
    Round((100 - ResolvedAt(call, p).score) * 10, EvaluatedCount(call, p))

\* p comes before q in the order "impact descending, ties in input order"
BeforeByImpact(call, p, q) ==
    \/ ImpactAt(call, p) > ImpactAt(call, q)
    \/ ImpactAt(call, p) = ImpactAt(call, q) /\ Earlier(p, q)

\* the rubric positions of the returned recommendations, in list order
ReturnedPositions(call) ==
    [i \in DOMAIN call.output.recommendations |->
        PositionOf(call.output.recommendations[i])]

\* The returned positions at are the first 30 of the qualifying ones in the
\* order before: each entry is before the next, and the last one is before
\* every qualifying position left out.  (before is a strict total order, so
\* this says that any entry is before any later one and any one left out.)
FirstThirtyIn(call, at, before(_, _, _)) ==
    /\ \A i \in DOMAIN at : i < Len(at) => before(call, at[i], at[i + 1])
    /\ \A p \in QualifyingPositions(call) \ Range(at) : before(call, at[Len(at)], p)
    /\ Len(at) = Min(30, Cardinality(QualifyingPositions(call)))

(* C7 as claimed: the pooled recommendations are ordered by potential gain *)
(* (1 - score) * (10/n) descending, the strictly larger gain first, equal  *)
(* gains in input order (rubric category order, then sub-issue order), and *)
(* the output is the first 30 of that order.                               *)
C7_OrderedByPotentialGain ==
    \A call \in Calls : FirstThirtyIn(call, ReturnedPositions(call), BeforeByGain)

(* C7 amended: the pooled recommendations are ordered by impact, that is   *)
(* by the potential gain rounded to two decimals, descending; two whose    *)
(* gains round to the same impact keep their input order, whichever gain   *)
(* is larger; the output is the first 30 of that order.                    *)
C7_OrderedByImpact ==
    \A call \in Calls : FirstThirtyIn(call, ReturnedPositions(call), BeforeByImpact)

\* a call with more than 30 qualifying sub-issues returned, in input order, two
\* recommendations of equal impact of which the second has the larger gain,
\* and left out a qualifying sub-issue of an earlier category than one returned
C7_Witness ==
    \E call \in Calls :
        LET at == ReturnedPositions(call)
        IN  /\ Cardinality(QualifyingPositions(call)) > 30
            /\ \E i, j \in DOMAIN at :
                   /\ i < j
                   /\ ImpactAt(call, at[i]) = ImpactAt(call, at[j])
                   /\ GainLarger(call, at[j], at[i])
            /\ \E p \in QualifyingPositions(call) \ Range(at) :
                   \E i \in DOMAIN at : Earlier(p, at[i])

(* C8: whenever every supplied score lies in [0,1], every category score   *)
(* returned lies in [0,10], and the overall score is the sum of the        *)
(* returned category scores rounded to two decimals and lies in [0,100].   *)
C8_ScoreRanges ==
    \A call \in Calls :
        (\A i \in DOMAIN call.input : call.input[i].score \in 0..100) =>
            /\ \A c \in CatIndex : call.output.categories[c].score \in 0..1000
            /\ call.output.overallScore =
                   Round(SumSeq([c \in CatIndex |-> call.output.categories[c].score]), 1)
            /\ call.output.overallScore \in 0..10000

\* a call on in-range scores, some of them excluded with a score above 0,
\* returned a category at 10.00, one strictly between 0 and 10 and an overall
\* score strictly between 0 and 100
C8_Witness ==
    \E call \in Calls :
        /\ \A i \in DOMAIN call.input : call.input[i].score \in 0..100
        /\ \E i \in DOMAIN call.input : call.input[i].excluded /\ call.input[i].score > 0
        /\ \E c \in CatIndex : call.output.categories[c].score = 1000
        /\ \E c \in CatIndex : call.output.categories[c].score \in 1..999
        /\ call.output.overallScore \in 1..9999

----------------------------------------------------------------------------
(* Specification of the import graph builder.  The project is put together *)
(* file by file and import by import, then buildImportGraph runs on it.    *)

MaxImports == 3

\* the files a project is made of, in project order: one in the root, one of
\* the same name in a directory, one outside the root
FilePaths == <<<<"repo", "a.ts">>, <<"repo", "lib", "a.ts">>, <<"shared", "a.ts">>>>

\* "./x", and "pkg/x": a package, or a path alias when it resolves to a project file
ModuleSpecifiers == {<<".", "x">>, <<"pkg", "x">>}

ProjectPaths == {files[i].path : i \in DOMAIN files}

InitGraph ==
    /\ files = <<>>
    /\ graph = NoGraph
    /\ analysis = NoAnalysis
    /\ scan = NoScan
    /\ subIssueResults = <<>>
    /\ extra = 0
    /\ runs = <<>>

\* the project gets the next file of FilePaths
AddSourceFile ==
    /\ graph = NoGraph
    /\ Len(files) < Len(FilePaths)
    /\ files' = Append(files, [path |-> FilePaths[Len(files) + 1], imports |-> <<>>])
    /\ UNCHANGED <<graph, subIssueResults, extra, runs, analysis, scan>>

\* file i gets one more import declaration; it resolves to a project file or to none
AddImport(i, moduleSpecifier, sourceFile) ==
    /\ graph = NoGraph
    /\ SumSeq([k \in DOMAIN files |-> Len(files[k].imports)]) < MaxImports
    /\ sourceFile \in ProjectPaths \cup {NoFile}
    /\ files' = [files EXCEPT ![i].imports =
                    Append(@, [moduleSpecifier |-> moduleSpecifier,
                               sourceFile |-> sourceFile])]
    /\ UNCHANGED <<graph, subIssueResults, extra, runs, analysis, scan>>

\* line 187: const graph = buildImportGraph(sourceFiles, rootPath)
BuildImportGraph ==
    /\ graph = NoGraph
    /\ graph' = <<buildImportGraph(files)>>
    /\ UNCHANGED <<files, subIssueResults, extra, runs, analysis, scan>>

NextGraph ==
    \/ AddSourceFile
    \/ \E i \in DOMAIN files : \E m \in ModuleSpecifiers :
           \E f \in Range(FilePaths) \cup {NoFile} : AddImport(i, m, f)
    \/ BuildImportGraph

SpecGraph == InitGraph /\ [][NextGraph]_vars

----------------------------------------------------------------------------
(* C10: buildImportGraph returns a graph with exactly one key per input    *)
(* file, a file with no resolvable import mapped to an empty set; several  *)
(* import declarations of a file that resolve to the same target make one  *)
(* edge; an import that is non-relative or does not resolve adds no edge   *)
(* and raises no error (the call returns).                                 *)
C10_OneKeyPerFileDedupedEdges ==
    graph # NoGraph =>
        LET g == graph[1]
            key(i) == relative(rootPath, files[i].path)
            \* the declarations of file i that are relative and resolve
            local(i) == {k \in DOMAIN files[i].imports :
                            /\ Head(files[i].imports[k].moduleSpecifier) \in {".", ".."}
                            /\ files[i].imports[k].sourceFile # NoFile}
        IN  /\ Len(g.keys) = Len(files)
            /\ \A i \in DOMAIN files : g.keys[i] = key(i)
            /\ \A i, j \in DOMAIN g.keys : i # j => g.keys[i] # g.keys[j]
            /\ DOMAIN g.val = Range(g.keys)
            /\ \A i \in DOMAIN files :
                   LET deps == g.val[key(i)]
                   IN  /\ Range(deps) = {relative(rootPath, files[i].imports[k].sourceFile) :
                                            k \in local(i)}
                       /\ \A a, b \in DOMAIN deps : a # b => deps[a] # deps[b]
                       /\ local(i) = {} => deps = <<>>

\* the graph of a project with a file that imports nothing, a file with no
\* resolvable import (one declaration, non-relative or unresolved) and a file
\* importing the same target twice
C10_Witness ==
    /\ graph # NoGraph
    /\ \E i, j, k \in DOMAIN files :
           /\ files[i].imports = <<>>
           /\ graph[1].val[relative(rootPath, files[i].path)] = <<>>
           /\ Len(files[j].imports) = 1
           /\ Len(graph[1].val[relative(rootPath, files[j].path)]) = 0
           /\ Len(files[k].imports) = 2
           /\ files[k].imports[1].sourceFile = files[k].imports[2].sourceFile
           /\ Len(graph[1].val[relative(rootPath, files[k].path)]) = 1

(* C11: in every graph produced by buildImportGraph no file's dependency   *)
(* set contains the file itself: an import that resolves to the importing  *)
(* file is dropped and produces no edge.                                   *)
C11_NoSelfDependency ==
    graph # NoGraph =>
        \A i \in DOMAIN files :
            LET relPath == relative(rootPath, files[i].path)
            IN  relPath \notin Range(graph[1].val[relPath])

----------------------------------------------------------------------------
(* src/analyzers/static/explicitness.ts: the analyzers of the import       *)
(* graph.  Scores are fractions [num, den] here (1 is den/den), since      *)
(* filesInCycles / totalFiles is no whole number of hundredths in general. *)
(* A finding is [file, line, message] as above; what a message or a        *)
(* summary interpolates (the cycle, the depth, the count) is what the      *)
(* analyzer records and is kept beside the result.                         *)

Fraction(num, den) == [num |-> num, den |-> den]

One == Fraction(1, 1)

\* Math.max(0, Math.min(1, score)) of a fraction with den > 0
Clamp01(score) ==
    IF score.num < 0 THEN Fraction(0, score.den)
    ELSE IF score.num > score.den THEN Fraction(score.den, score.den)
    ELSE score

\* graph.get(node), undefined read as no dependencies (if (deps) { ... })
Deps(g, node) == IF node \in Range(g.keys) THEN g.val[node] ELSE <<>>

\* Array.prototype.indexOf, counted from 1; 0 when absent (-1 in the code)
IndexOf(s, x) ==
    IF x \in Range(s) THEN CHOOSE i \in DOMAIN s : s[i] = x /\ \A j \in 1..(i - 1) : s[j] # x
    ELSE 0

\* if (cycles.length < 50) and if (cycles.length >= 50) { break; }
MaxCycles == 50

\* cycles.slice(0, 20) and the other slice(0, 20) of findings
MaxFindings == 20

\* dfs(node, pathStack) of analyzeCircularDeps on the traversal state
\* st = [visited, inStack, cycles]; dfsDeps is its loop over deps from the
\* k-th dependency on, each call getting a copy of pathStack
RECURSIVE dfs(_, _, _, _)
RECURSIVE dfsDeps(_, _, _, _, _)
\* dfs taking every file met again for a cycle: visited tested in place of
\* inStack, the path so far recorded
dfs_VisitedMeansCycle(g, st, node, pathStack) ==
    IF node \in st.visited
    THEN IF Len(st.cycles) < MaxCycles
         THEN [st EXCEPT !.cycles = Append(@, Append(pathStack, node))]
         ELSE st
    ELSE LET entered == [st EXCEPT !.visited = @ \cup {node}, !.inStack = @ \cup {node}]
             left == dfsDeps(g, entered, Deps(g, node), 1, Append(pathStack, node))
         IN  CASE Evaluated(left) -> [left EXCEPT !.inStack = @ \ {node}]

\* dfs with the cap tested by <=: a cycle is still pushed onto a list of 50
dfs_CapInclusive(g, st, node, pathStack) ==
    IF node \in st.inStack
    THEN LET cycleStart == IndexOf(pathStack, node)
         IN  IF cycleStart >= 1 /\ Len(st.cycles) <= MaxCycles
             THEN [st EXCEPT !.cycles =
                      Append(@, Append(SubSeq(pathStack, cycleStart, Len(pathStack)), node))]
             ELSE st
    ELSE IF node \in st.visited THEN st
    ELSE LET entered == [st EXCEPT !.visited = @ \cup {node}, !.inStack = @ \cup {node}]
             left == dfsDeps(g, entered, Deps(g, node), 1, Append(pathStack, node))
         IN  CASE Evaluated(left) -> [left EXCEPT !.inStack = @ \ {node}]

\* dfs recording the whole path walked so far in place of its suffix from
\* the file met again
dfs_WholePath(g, st, node, pathStack) ==
    IF node \in st.inStack
    THEN LET cycleStart == IndexOf(pathStack, node)
         IN  IF cycleStart >= 1 /\ Len(st.cycles) < MaxCycles
             THEN [st EXCEPT !.cycles = Append(@, Append(pathStack, node))]
             ELSE st
    ELSE IF node \in st.visited THEN st
    ELSE LET entered == [st EXCEPT !.visited = @ \cup {node}, !.inStack = @ \cup {node}]
             left == dfsDeps(g, entered, Deps(g, node), 1, Append(pathStack, node))
         IN  CASE Evaluated(left) -> [left EXCEPT !.inStack = @ \ {node}]

dfs(g, st, node, pathStack) ==
    IF node \in st.inStack
    THEN LET cycleStart == IndexOf(pathStack, node)
         IN  IF cycleStart >= 1 /\ Len(st.cycles) < MaxCycles
             THEN [st EXCEPT !.cycles =
                      Append(@, Append(SubSeq(pathStack, cycleStart, Len(pathStack)), node))]
             ELSE st
    ELSE IF node \in st.visited THEN st
    ELSE LET entered == [st EXCEPT !.visited = @ \cup {node}, !.inStack = @ \cup {node}]
             left == dfsDeps(g, entered, Deps(g, node), 1, Append(pathStack, node))
         IN  CASE Evaluated(left) -> [left EXCEPT !.inStack = @ \ {node}]

dfsDeps(g, st, deps, k, pathStack) ==
    IF k > Len(deps) THEN st
    ELSE LET returned == dfs(g, st, deps[k], pathStack)
         IN  CASE Evaluated(returned) -> dfsDeps(g, returned, deps, k + 1, pathStack)

\* the loop over the keys without visited.clear(): a file visited from an
\* earlier key is never entered again
RECURSIVE cyclesKeeping(_, _, _)
cyclesKeeping(g, k, st) ==
    IF k > Len(g.keys) THEN st.cycles
    ELSE LET left == dfs(g, [st EXCEPT !.inStack = {}], g.keys[k], <<>>)
         IN  CASE Evaluated(left) ->
                 IF Len(left.cycles) >= MaxCycles THEN left.cycles
                 ELSE cyclesKeeping(g, k + 1, left)

cyclesFrom_GlobalVisited(g, k, cycles) ==
    cyclesKeeping(g, k, [visited |-> {}, inStack |-> {}, cycles |-> cycles])

\* lines 262-267: the cycles recorded once the traversal has started from the
\* keys k, k+1, ... with cycles recorded so far
RECURSIVE cyclesFrom(_, _, _)
cyclesFrom(g, k, cycles) ==
    IF k > Len(g.keys) THEN cycles
    ELSE LET st == dfs(g, [visited |-> {}, inStack |-> {}, cycles |-> cycles],
                       g.keys[k], <<>>)
         IN  CASE Evaluated(st) ->
                 IF Len(st.cycles) >= MaxCycles THEN st.cycles
                 ELSE cyclesFrom(g, k + 1, st.cycles)

findCycles(g) == cyclesFrom(g, 1, <<>>)

\* lines 262-267: the number of keys dfs has been started from when the loop
\* ends, the keys before k having left the cycles recorded so far
RECURSIVE startsFrom(_, _, _)
startsFrom(g, k, cycles) ==
    IF k > Len(g.keys) THEN k - 1
    ELSE LET st == dfs(g, [visited |-> {}, inStack |-> {}, cycles |-> cycles],
                       g.keys[k], <<>>)
         IN  CASE Evaluated(st) ->
                 IF Len(st.cycles) >= MaxCycles THEN k
                 ELSE startsFrom(g, k + 1, st.cycles)

startedKeys(g) == startsFrom(g, 1, <<>>)

\* new Set(cycles.flat())
filesInCycles(cycles) == UNION {Range(cycles[i]) : i \in DOMAIN cycles}

circularDepsScore(g, cycles) ==
    LET totalFiles == Len(g.keys)
        inCycles == Cardinality(filesInCycles(cycles))
    IN  IF totalFiles > 0
        THEN Clamp01(Fraction(totalFiles - inCycles * 5, totalFiles))
        ELSE One

analyzeCircularDeps(g) ==
    LET cycles == findCycles(g)
        reported == Slice(cycles, MaxFindings)
    IN  SubIssueResult("10.3", circularDepsScore(g, cycles), FALSE,
                       [i \in DOMAIN reported |->
                           [file |-> reported[i][1], line |-> NoLine,
                            message |-> "Circular dependency"]],
                       "circular dependency cycles found")

\* Math.max
Max(a, b) == IF a > b THEN a ELSE b

\* getDepth(file, visited) of analyzeMaxImportDepth on st = [depths, visited]:
\* depths is the Map shared by all calls, visited the Set of the traversal
\* that started at one key.  Returns [st, depth]; getDepthDeps is the loop
\* over deps from the k-th dependency on, maxChildDepth being its maximum so far
RECURSIVE getDepth(_, _, _)
RECURSIVE getDepthDeps(_, _, _, _, _)
getDepth(g, st, file) ==
    IF file \in st.visited THEN [st |-> st, depth |-> 0]
    ELSE IF file \in Range(st.depths.keys)
    THEN [st |-> st, depth |-> st.depths.val[file]]
    ELSE LET entered == [st EXCEPT !.visited = @ \cup {file}]
             deps == Deps(g, file)
         IN  IF deps = <<>>
             THEN [st |-> [entered EXCEPT !.depths = MapSet(@, file, 0)], depth |-> 0]
             ELSE LET children == getDepthDeps(g, entered, deps, 1, 0)
                      depth == children.depth + 1
                  IN  CASE Evaluated(children) ->
                          [st |-> [depths |-> MapSet(children.st.depths, file, depth),
                                   visited |-> children.st.visited \ {file}],
                           depth |-> depth]

\* the loop over deps adding the depths of the dependencies up, in place of
\* keeping the largest
RECURSIVE getDepthDeps_Sums(_, _, _, _, _)
getDepthDeps_Sums(g, st, deps, k, maxChildDepth) ==
    IF k > Len(deps) THEN [st |-> st, depth |-> maxChildDepth]
    ELSE LET child == getDepth(g, st, deps[k])
         IN  CASE Evaluated(child) ->
                 getDepthDeps_Sums(g, child.st, deps, k + 1, maxChildDepth + child.depth)

getDepthDeps(g, st, deps, k, maxChildDepth) ==
    IF k > Len(deps) THEN [st |-> st, depth |-> maxChildDepth]
    ELSE LET child == getDepth(g, st, deps[k])
         IN  CASE Evaluated(child) ->
                 getDepthDeps(g, child.st, deps, k + 1, Max(maxChildDepth, child.depth))

\* lines 354-356: the Map depths once getDepth(file, new Set()) has run for
\* the keys k, k+1, ...
RECURSIVE depthsFrom(_, _, _)
depthsFrom(g, k, depths) ==
    IF k > Len(g.keys) THEN depths
    ELSE LET returned == getDepth(g, [depths |-> depths, visited |-> {}], g.keys[k])
         IN  CASE Evaluated(returned) -> depthsFrom(g, k + 1, returned.st.depths)

importDepths(g) == depthsFrom(g, 1, EmptyMap)

\* Array.from(map.entries()).sort((a, b) => b[1] - a[1]): the keys with the
\* largest value first, keys of equal value in insertion order
RECURSIVE sortedByValues(_, _, _)
sortedByValues(keys, val, values) ==
    IF values = {} THEN <<>>
    ELSE LET top == CHOOSE v \in values : \A w \in values : w <= v
         IN  SelectSeq(keys, LAMBDA f : val[f] = top)
                 \o sortedByValues(keys, val, values \ {top})

sortedByValue(keys, val) == sortedByValues(keys, val, {val[keys[i]] : i \in DOMAIN keys})

\* the keys whose value is above bound (if (depth > 8), if (count > 15))
keysAbove(keys, val, bound) == SelectSeq(keys, LAMBDA f : val[f] > bound)

\* line 372
maxImportDepth(depths) ==
    LET sortedByDepth == sortedByValue(depths.keys, depths.val)
    IN  IF Len(sortedByDepth) > 0 THEN depths.val[sortedByDepth[1]] ELSE 0

\* lines 373-377
importDepthScore(maxDepth) ==
    IF maxDepth <= 5 THEN One
    ELSE IF maxDepth <= 10 THEN Fraction(7, 10)
    ELSE IF maxDepth <= 15 THEN Fraction(4, 10)
    ELSE Fraction(2, 10)

analyzeMaxImportDepth(g) ==
    LET depths == importDepths(g)
        sortedByDepth == sortedByValue(depths.keys, depths.val)
        deepest == keysAbove(Slice(sortedByDepth, MaxFindings), depths.val, 8)
    IN  SubIssueResult("10.6", importDepthScore(maxImportDepth(depths)), FALSE,
                       [i \in DOMAIN deepest |->
                           [file |-> deepest[i], line |-> NoLine,
                            message |-> "has an import chain depth of"]],
                       "Maximum import chain depth")

\* The characters of the path segments the projects below are made of: a
\* segment is written as a string, toLowerCase() and includes() work on its
\* characters
Chars(segment) ==
    CASE segment = "src" -> <<"s", "r", "c">>
      [] segment = "lib" -> <<"l", "i", "b">>
      [] segment = "core" -> <<"c", "o", "r", "e">>
      [] segment = "util" -> <<"u", "t", "i", "l">>
      [] segment = "data" -> <<"d", "a", "t", "a">>
      [] segment = "types" -> <<"t", "y", "p", "e", "s">>
      [] segment = "api" -> <<"a", "p", "i">>
      [] segment = "index" -> <<"i", "n", "d", "e", "x">>
      [] segment = "Routes" -> <<"R", "o", "u", "t", "e", "s">>
      [] segment = "users.ts" -> <<"u", "s", "e", "r", "s", ".", "t", "s">>
      [] segment = "UserController.ts" -> <<"U", "s", "e", "r", "C", "o", "n", "t", "r", "o", "l", "l", "e", "r", ".", "t", "s">>
      [] segment = "index.ts" -> <<"i", "n", "d", "e", "x", ".", "t", "s">>
      [] segment = "index.tsx" -> <<"i", "n", "d", "e", "x", ".", "t", "s", "x">>
      [] segment = "a.ts" -> <<"a", ".", "t", "s">>
      [] segment = "b.ts" -> <<"b", ".", "t", "s">>
      [] segment = "m.ts" -> <<"m", ".", "t", "s">>
      [] segment = ".." -> <<".", ".">>

\* String.prototype.toLowerCase on one character
LowerCase(c) ==
    CASE c = "A" -> "a"
      [] c = "B" -> "b"
      [] c = "C" -> "c"
      [] c = "D" -> "d"
      [] c = "E" -> "e"
      [] c = "F" -> "f"
      [] c = "G" -> "g"
      [] c = "H" -> "h"
      [] c = "I" -> "i"
      [] c = "J" -> "j"
      [] c = "K" -> "k"
      [] c = "L" -> "l"
      [] c = "M" -> "m"
      [] c = "N" -> "n"
      [] c = "O" -> "o"
      [] c = "P" -> "p"
      [] c = "Q" -> "q"
      [] c = "R" -> "r"
      [] c = "S" -> "s"
      [] c = "T" -> "t"
      [] c = "U" -> "u"
      [] c = "V" -> "v"
      [] c = "W" -> "w"
      [] c = "X" -> "x"
      [] c = "Y" -> "y"
      [] c = "Z" -> "z"
      [] OTHER -> c

toLowerCase(chars) == [i \in DOMAIN chars |-> LowerCase(chars[i])]

\* the characters of a relative path: its segments joined by "/"
RECURSIVE PathChars(_)
PathChars(path) ==
    IF path = <<>> THEN <<>>
    ELSE IF Len(path) = 1 THEN Chars(path[1])
    ELSE Chars(path[1]) \o <<"/">> \o PathChars(Tail(path))

\* String.prototype.includes
includes(chars, pattern) ==
    \E i \in 1..(Len(chars) - Len(pattern) + 1) :
        SubSeq(chars, i, i + Len(pattern) - 1) = pattern

\* line 391
entryPatterns ==
    <<<<"r", "e", "s", "o", "u", "r", "c", "e">>,
      <<"r", "o", "u", "t", "e">>,
      <<"h", "a", "n", "d", "l", "e", "r">>,
      <<"c", "o", "n", "t", "r", "o", "l", "l", "e", "r">>,
      <<"e", "n", "d", "p", "o", "i", "n", "t">>>>

\* lines 392-394: (f) => entryPatterns.some((p) => f.toLowerCase().includes(p))
IsEntryFile(f) ==
    \E k \in DOMAIN entryPatterns : includes(toLowerCase(PathChars(f)), entryPatterns[k])

entryFiles(g) == SelectSeq(g.keys, IsEntryFile)

\* lines 399-411: the Set visited when the loop ends, started with the given
\* visited and queue; queue.pop() takes the last element
RECURSIVE closure(_, _, _)
\* the traversal given up once MaxFindings files are visited
closure_Capped(g, visited, queue) ==
    IF queue = <<>> \/ Cardinality(visited) >= MaxFindings THEN visited
    ELSE LET current == queue[Len(queue)]
             rest == SubSeq(queue, 1, Len(queue) - 1)
         IN  CASE Evaluated(visited) ->
                 IF current \in visited THEN closure(g, visited, rest)
                 ELSE closure(g, visited \cup {current}, rest \o Deps(g, current))

closure(g, visited, queue) ==
    IF queue = <<>> THEN visited
    ELSE LET current == queue[Len(queue)]
             rest == SubSeq(queue, 1, Len(queue) - 1)
         IN  CASE Evaluated(visited) ->
                 IF current \in visited THEN closure(g, visited, rest)
                 ELSE closure(g, visited \cup {current}, rest \o Deps(g, current))

\* lines 396-413: the Map transitiveImports
RECURSIVE transitiveImportsFrom(_, _, _, _)
transitiveImportsFrom(g, entries, k, map) ==
    IF k > Len(entries) THEN map
    ELSE LET counted == MapSet(map, entries[k],
                               Cardinality(closure(g, {}, <<entries[k]>>)))
         IN  CASE Evaluated(counted) -> transitiveImportsFrom(g, entries, k + 1, counted)

transitiveImports(g) == transitiveImportsFrom(g, entryFiles(g), 1, EmptyMap)

\* lines 428-433 with avgImports = total / entries: avgImports <= 5 is
\* total <= 5 * entries, and avgImports is 0 when there is no entry
\* the buckets with their upper ends left out: an average of exactly 5, 10
\* or 20 falls into the next bucket
filesPerFeatureScore_OpenBuckets(total, entries) ==
    IF entries = 0 \/ total < 5 * entries THEN One
    ELSE IF total < 10 * entries THEN Fraction(8, 10)
    ELSE IF total < 20 * entries THEN Fraction(5, 10)
    ELSE Fraction(2, 10)

filesPerFeatureScore(total, entries) ==
    IF entries = 0 \/ total <= 5 * entries THEN One
    ELSE IF total <= 10 * entries THEN Fraction(8, 10)
    ELSE IF total <= 20 * entries THEN Fraction(5, 10)
    ELSE Fraction(2, 10)

analyzeFilesPerFeature(g) ==
    LET counts == transitiveImports(g)
        sorted == sortedByValue(counts.keys, counts.val)
        large == keysAbove(Slice(sorted, MaxFindings), counts.val, 15)
        total == SumSeq([i \in DOMAIN sorted |-> counts.val[sorted[i]]])
    IN  SubIssueResult("10.7", filesPerFeatureScore(total, Len(sorted)), FALSE,
                       [i \in DOMAIN large |->
                           [file |-> large[i], line |-> NoLine,
                            message |-> "transitively imports many files"]],
                       "Entry-point files average transitive imports")

(* A SourceFile handed to the analyzers of the import graph is              *)
(* [path, imports, exportDecls, statements, classes, arrays, useCalls]:    *)
(* exportDecls is getExportDeclarations().length, statements is            *)
(* getStatements().length, classes its class declarations, arrays the      *)
(* number of commas of each match of arrayPattern in its text and useCalls *)
(* the number of matches of useChainPattern.                               *)

\* path.basename
basename(path) == IF path = <<>> THEN "" ELSE path[Len(path)]

\* line 297, negated: the file is looked at
IsIndexFile(relPath) == basename(relPath) \in {"index.ts", "index.tsx"}

\* line 303 with > in place of >=
IsBarrel_StrictlyMore(file) ==
    /\ IsIndexFile(relative(rootPath, file.path))
    /\ file.exportDecls > 0
    /\ file.exportDecls * 2 > file.statements

\* lines 297-303: exportDecls.length >= stmtCount * 0.5 is
\* 2 * exportDecls.length >= stmtCount
IsBarrel(file) ==
    /\ IsIndexFile(relative(rootPath, file.path))
    /\ file.exportDecls > 0
    /\ file.exportDecls * 2 >= file.statements

\* findings.sort((a, b) => (b.value ?? 0) - (a.value ?? 0)) on findings that
\* all have a value: the largest value first, equal values in the order found
RECURSIVE sortedByValueOf(_, _)
sortedByValueOf(found, values) ==
    IF values = {} THEN <<>>
    ELSE LET top == CHOOSE v \in values : \A w \in values : w <= v
         IN  SelectSeq(found, LAMBDA f : f.value = top)
                 \o sortedByValueOf(found, values \ {top})

sortedFindings(found) == sortedByValueOf(found, {found[i].value : i \in DOMAIN found})

\* findings.slice(0, 20) of the sorted findings, as [file, line, message]
reportedFindings(found, message) ==
    LET top == Slice(sortedFindings(found), MaxFindings)
    IN  [i \in DOMAIN top |-> [file |-> top[i].file, line |-> top[i].line,
                               message |-> message]]

barrelFiles(sourceFiles) == SelectSeq(sourceFiles, IsBarrel)

analyzeBarrelFiles(sourceFiles) ==
    LET barrels == barrelFiles(sourceFiles)
        barrelCount == Len(barrels)
        totalFiles == Len(sourceFiles)
        score == IF totalFiles > 0
                 THEN Clamp01(Fraction(totalFiles - barrelCount * 10, totalFiles))
                 ELSE One
    IN  SubIssueResult("10.4", score, FALSE,
                       reportedFindings([i \in DOMAIN barrels |->
                                            [file |-> relative(rootPath, barrels[i].path),
                                             line |-> NoLine,
                                             value |-> barrels[i].exportDecls]],
                                        "is a barrel file"),
                       "barrel/index files found")

(* A class declaration is [line, extends]: extends is <<>> when the class  *)
(* extends nothing and else <<[text, decl]>>, text the text of the base    *)
(* expression and decl what line 466-468 find for it: <<>> when the base   *)
(* has no declaration or that has no enclosing class declaration, else     *)
(* <<c>> with that class declaration c.                                    *)

\* lines 452-477: depth when the loop ends, entered at class current
RECURSIVE inheritanceDepth(_, _, _)
inheritanceDepth(current, visited, depth) ==
    IF current.extends = <<>> THEN depth
    ELSE LET baseClass == current.extends[1]
         IN  IF baseClass.text \in visited THEN depth
             ELSE IF baseClass.decl = <<>> THEN depth + 1
             ELSE inheritanceDepth(baseClass.decl[1], visited \cup {baseClass.text},
                                   depth + 1)

\* lines 448-491: one [file, line, value] per class, value its depth
classDepths(sourceFiles) ==
    Flatten([i \in DOMAIN sourceFiles |->
                [c \in DOMAIN sourceFiles[i].classes |->
                    [file |-> relative(rootPath, sourceFiles[i].path),
                     line |-> sourceFiles[i].classes[c].line,
                     value |-> inheritanceDepth(sourceFiles[i].classes[c], {}, 0)]]])

analyzeInheritanceDepth(sourceFiles) ==
    LET depths == classDepths(sourceFiles)
        maxDepth == IF depths = <<>> THEN 0
                    ELSE CHOOSE d \in {depths[i].value : i \in DOMAIN depths} :
                             \A i \in DOMAIN depths : depths[i].value <= d
        score == IF maxDepth <= 1 THEN One
                 ELSE IF maxDepth <= 2 THEN Fraction(8, 10)
                 ELSE IF maxDepth <= 3 THEN Fraction(5, 10)
                 ELSE Fraction(2, 10)
    IN  SubIssueResult("10.1", score, FALSE,
                       reportedFindings(SelectSeq(depths, LAMBDA d : d.value > 2),
                                        "has inheritance depth"),
                       "Max inheritance depth")

\* lines 521-555: one [file, line, value, long] per chain counted in totalChains
middlewareChains(sourceFiles) ==
    Flatten([i \in DOMAIN sourceFiles |->
                LET file == sourceFiles[i]
                    relPath == relative(rootPath, file.path)
                IN  [m \in DOMAIN file.arrays |->
                        [file |-> relPath, line |-> NoLine,
                         value |-> file.arrays[m] + 1, long |-> file.arrays[m] > 5]]
                    \o (IF file.useCalls > 5
                        THEN <<[file |-> relPath, line |-> NoLine,
                                value |-> file.useCalls, long |-> TRUE]>>
                        ELSE <<>>)])

analyzeMiddlewareChains(sourceFiles) ==
    LET chains == middlewareChains(sourceFiles)
        long == SelectSeq(chains, LAMBDA c : c.long)
        totalChains == Len(chains)
        longChains == Len(long)
        score == IF totalChains > 0
                 THEN Clamp01(Fraction(totalChains - longChains, totalChains))
                 ELSE One
    IN  SubIssueResult("10.2", score, FALSE,
                       reportedFindings(long, "has a long chain of middleware/handlers"),
                       "long middleware/handler chains detected")

\* lines 185-197
analyzeImportGraph(sourceFiles) ==
    LET g == buildImportGraph(sourceFiles)
    IN  <<analyzeCircularDeps(g),
          analyzeBarrelFiles(sourceFiles),
          analyzeMaxImportDepth(g),
          analyzeFilesPerFeature(g),
          analyzeInheritanceDepth(sourceFiles),
          analyzeMiddlewareChains(sourceFiles)>>

----------------------------------------------------------------------------
(* Specification of analyzeImportGraph.  A project is one of the projects  *)
(* below; its files get import declarations one by one, then               *)
(* analyzeImportGraph runs on it.                                          *)

MaxEdges == 4

SourceFile(path, imports, exportDecls, statements, classes, arrays, useCalls) ==
    [path |-> path, imports |-> imports, exportDecls |-> exportDecls,
     statements |-> statements, classes |-> classes, arrays |-> arrays,
     useCalls |-> useCalls]

\* import ... from "./x" resolved to the file at path
ImportOf(path) == [moduleSpecifier |-> <<".", "x">>, sourceFile |-> path]

BaseClass == [line |-> 1, extends |-> <<>>]

MiddleClass == [line |-> 5, extends |-> <<[text |-> "Base", decl |-> <<BaseClass>>]>>]

\* four files: an entry file that is an index file with 1 re-export among 2
\* statements, an index file with 2 among 5, a file of re-exports only that
\* is not named index and a file in a directory named index
SmallProject ==
    <<SourceFile(<<"repo", "src", "Routes", "index.ts">>, <<>>, 1, 2, <<>>, <<>>, 0),
      SourceFile(<<"repo", "src", "lib", "index.tsx">>, <<>>, 2, 5, <<>>, <<4, 6>>, 0),
      SourceFile(<<"repo", "src", "lib", "a.ts">>, <<>>, 3, 3,
                 <<[line |-> 9, extends |-> <<[text |-> "Middle", decl |-> <<MiddleClass>>]>>]>>,
                 <<>>, 6),
      SourceFile(<<"repo", "src", "index", "b.ts">>, <<>>, 1, 1, <<>>, <<>>, 0)>>

\* three files, none of them an entry file: an empty index file, an index
\* file without re-exports and a file that extends a class of a package
LibraryProject ==
    <<SourceFile(<<"repo", "src", "lib", "index.ts">>, <<>>, 0, 0, <<>>, <<>>, 0),
      SourceFile(<<"repo", "src", "core", "index.ts">>, <<>>, 0, 3, <<>>, <<>>, 0),
      SourceFile(<<"repo", "src", "core", "a.ts">>, <<>>, 0, 4,
                 <<[line |-> 2, extends |-> <<[text |-> "Error", decl |-> <<>>]>>]>>,
                 <<>>, 0)>>

ChainDirs == <<"lib", "core", "util", "data", "types">>

\* the k-th file of a chain: src/<dir>/<dir>/m.ts
ChainPath(k) ==
    <<"repo", "src", ChainDirs[((k - 1) \div Len(ChainDirs)) + 1],
      ChainDirs[((k - 1) % Len(ChainDirs)) + 1], "m.ts">>

\* the import declarations of file j of a feature, its files counted from the
\* entry file 0: file j imports the files j * fan + 1 .. j * fan + fan
FeatureImports(j, n, fan) ==
    LET first == j * fan + 1
        last == IF j * fan + fan < n THEN j * fan + fan ELSE n
    IN  [i \in 1..(last - first + 1) |-> ImportOf(ChainPath(first + i - 1))]

\* an entry file and n further files, each file importing the next fan files
\* (a chain when fan is 1); with second, a further entry file that imports
\* nothing
FeatureProject(n, fan, second) ==
    <<SourceFile(<<"repo", "src", "api", "UserController.ts">>,
                 FeatureImports(0, n, fan), 0, 1, <<>>, <<>>, 0)>>
    \o [k \in 1..n |->
           SourceFile(ChainPath(k), FeatureImports(k, n, fan), 0, 1, <<>>, <<>>, 0)]
    \o (IF second
        THEN <<SourceFile(<<"repo", "src", "Routes", "users.ts">>, <<>>, 0, 1, <<>>, <<>>, 0)>>
        ELSE <<>>)

\* closure sizes 5, 6, 10, 11, 20 and 21 for the only entry file, averages
\* of 5, 5.5, 10 and 10.5 over two entry files, and chains of depth 6 and 11
FeatureProjects ==
    {FeatureProject(n, 4, FALSE) : n \in {4, 5, 9, 10, 19, 20}}
    \cup {FeatureProject(n, 4, TRUE) : n \in {8, 9, 18, 19}}
    \cup {FeatureProject(n, 1, FALSE) : n \in {6, 11}}

\* n files, each importing every file of the project, itself too when self
DenseProject(n, self) ==
    [k \in 1..n |->
        SourceFile(ChainPath(k),
                   SelectSeq([j \in 1..n |-> ImportOf(ChainPath(j))],
                             LAMBDA imp : self \/ imp.sourceFile # ChainPath(k)),
                   0, 1, <<>>, <<>>, 0)]

\* projects with 24, 40, 50 and 75 closed paths to find
DenseProjects ==
    {DenseProject(4, FALSE), DenseProject(4, TRUE), DenseProject(5, FALSE),
     DenseProject(5, TRUE)}

AnalyzedProjects ==
    {<<>>, SmallProject, LibraryProject} \cup FeatureProjects \cup DenseProjects

InitAnalyze ==
    /\ files \in AnalyzedProjects
    /\ graph = NoGraph
    /\ analysis = NoAnalysis
    /\ subIssueResults = <<>>
    /\ extra = 0
    /\ runs = <<>>
    /\ scan = NoScan

ImportCount == SumSeq([k \in DOMAIN files |-> Len(files[k].imports)])

\* file i gets one more import declaration, which resolves to file j
Import(i, j) ==
    /\ graph = NoGraph
    /\ ImportCount < MaxEdges
    /\ \A k \in DOMAIN files[i].imports : files[i].imports[k].sourceFile # files[j].path
    /\ files' = [files EXCEPT ![i].imports = Append(@, ImportOf(files[j].path))]
    /\ UNCHANGED <<graph, analysis, subIssueResults, extra, runs, scan>>

\* what the analyzers of analyzeImportGraph record on the way to their results
Recorded(sourceFiles) ==
    LET g == buildImportGraph(sourceFiles)
    IN  [cycles |-> findCycles(g),
         starts |-> startedKeys(g),
         depths |-> importDepths(g),
         maxDepth |-> maxImportDepth(importDepths(g)),
         transitiveImports |-> transitiveImports(g),
         barrels |-> barrelFiles(sourceFiles)]

\* analyzeImportGraph(project, rootPath)
AnalyzeImportGraph ==
    /\ graph = NoGraph
    /\ graph' = <<buildImportGraph(files)>>
    /\ analysis' = <<Recorded(files)>>
    /\ subIssueResults' = analyzeImportGraph(files)
    /\ UNCHANGED <<files, extra, runs, scan>>

NextAnalyze ==
    \/ \E i, j \in DOMAIN files : Import(i, j)
    \/ AnalyzeImportGraph

SpecAnalyze == InitAnalyze /\ [][NextAnalyze]_vars

----------------------------------------------------------------------------
(* Vocabulary of the properties of the import graph analyzers.  They are   *)
(* stated over the state analyzeImportGraph returns to: graph[1] is the    *)
(* graph it built, analysis[1] what its analyzers recorded and             *)
(* subIssueResults the list it returned.  Paths, cycles and closures are   *)
(* defined here from the edges alone.                                      *)

Analyzed == analysis # NoAnalysis

\* the result with the given id in the returned list
ResultOf(id) == CHOOSE r \in Range(subIssueResults) : r.id = id

Nodes(g) == Range(g.keys)

\* the files x imports directly
Successors(g, x) == IF x \in Nodes(g) THEN Range(g.val[x]) ELSE {}

\* the files reached from the files of s over any number of edges, s included
RECURSIVE ReachedFrom(_, _)
ReachedFrom(g, s) ==
    LET next == s \cup UNION {Successors(g, x) : x \in s}
    IN  IF next = s THEN s ELSE ReachedFrom(g, next)

\* x lies on a directed cycle (a self-import is one)
OnCycle(g, x) == x \in ReachedFrom(g, Successors(g, x))

Acyclic(g) == \A x \in Nodes(g) : ~OnCycle(g, x)

\* the four files form the diamond a -> b, a -> c, b -> d, c -> d
Diamond(g, a, b, c, d) ==
    /\ Cardinality({a, b, c, d}) = 4
    /\ Successors(g, a) = {b, c}
    /\ Successors(g, b) = {d}
    /\ Successors(g, c) = {d}
    /\ Successors(g, d) = {}

(* C12: for every acyclic import graph (the empty graph and graphs with    *)
(* diamonds included) analyzeCircularDeps reports zero cycles and a score  *)
(* of exactly 1.0.                                                         *)
C12_AcyclicNoCycles ==
    (Analyzed /\ Acyclic(graph[1])) =>
        /\ analysis[1].cycles = <<>>
        /\ ResultOf("10.3").findings = <<>>
        /\ ResultOf("10.3").score.num = ResultOf("10.3").score.den

\* the analyzed graph has four files and they form a diamond
C12_Witness ==
    /\ Analyzed
    /\ Len(graph[1].keys) = 4
    /\ \E a, b, c, d \in Nodes(graph[1]) : Diamond(graph[1], a, b, c, d)
    /\ analysis[1].cycles = <<>>
    /\ ResultOf("10.3").score = Fraction(4, 4)

\* the graph is the loop a -> b -> c -> a over its three files
ThreeFileLoop(g) ==
    /\ Len(g.keys) = 3
    /\ \E a, b, c \in Nodes(g) :
           /\ Cardinality({a, b, c}) = 3
           /\ Successors(g, a) = {b}
           /\ Successors(g, b) = {c}
           /\ Successors(g, c) = {a}

(* C13: for the three-file graph A -> B -> C -> A the cycle detector       *)
(* reports exactly one cycle, over the files {A, B, C} (it is not reported *)
(* again when the traversal restarts from B or from C), and the score is   *)
(* max(0, 1 - 1 * 5) = 0.                                                  *)
C13_ThreeFileLoopOneCycle ==
    (Analyzed /\ ThreeFileLoop(graph[1])) =>
        /\ Len(analysis[1].cycles) = 1
        /\ Len(ResultOf("10.3").findings) = 1
        /\ filesInCycles(analysis[1].cycles) = Nodes(graph[1])
        /\ ResultOf("10.3").score.num = 0

\* the largest number of a non-empty finite set of numbers
MaxOf(s) == CHOOSE m \in s : \A y \in s : y <= m

\* the depth the definition gives x from the depths val of its dependencies
DepthFromDeps(g, val, x) ==
    IF Successors(g, x) = {} THEN 0
    ELSE 1 + MaxOf({val[y] : y \in Successors(g, x)})

(* C14: on every acyclic import graph analyzeMaxImportDepth gives depth 0  *)
(* to each file without outgoing edges and 1 + max(depth of its direct     *)
(* dependencies) to every other file, in whatever order the files are      *)
(* iterated (the diamond gets 0, 1, 1, 2), and the reported maximum is the *)
(* largest of these depths.                                                *)
C14_AcyclicDepths ==
    (Analyzed /\ Acyclic(graph[1])) =>
        LET g == graph[1]
            depths == analysis[1].depths
        IN  /\ Range(depths.keys) = Nodes(g)
            /\ \A x \in Nodes(g) : depths.val[x] = DepthFromDeps(g, depths.val, x)
            /\ analysis[1].maxDepth = MaxOf({0} \cup {depths.val[x] : x \in Nodes(g)})

\* a diamond has been analyzed whose top file is iterated last, its
\* dependencies' depths being recorded before: the depths are 0, 1, 1, 2
C14_Witness ==
    /\ Analyzed
    /\ Len(graph[1].keys) = 4
    /\ \E a, b, c, d \in Nodes(graph[1]) :
           /\ Diamond(graph[1], a, b, c, d)
           /\ a = graph[1].keys[4]
           /\ analysis[1].depths.val[d] = 0
           /\ analysis[1].depths.val[b] = 1
           /\ analysis[1].depths.val[c] = 1
           /\ analysis[1].depths.val[a] = 2
    /\ analysis[1].maxDepth = 2
    /\ ResultOf("10.6").summary = "Maximum import chain depth"

\* the number of edges of the longest import path from x that repeats no
\* file and avoids the files of seen
RECURSIVE LongestSimplePath(_, _, _)
LongestSimplePath(g, x, seen) ==
    LET next == (Successors(g, x) \cap Nodes(g)) \ (seen \cup {x})
    IN  IF next = {} THEN 0
        ELSE 1 + MaxOf({LongestSimplePath(g, y, seen \cup {x}) : y \in next})

(* C15: on graphs with cycles a dependency already on the current         *)
(* traversal path contributes 0, so the depth recorded for a file never    *)
(* exceeds the number of edges of the longest simple import path that      *)
(* starts at it; for the two-file cycle no file gets a depth above 1.      *)
C15_DepthWithinLongestSimplePath ==
    Analyzed =>
        \A x \in Nodes(graph[1]) :
            analysis[1].depths.val[x] <= LongestSimplePath(graph[1], x, {})

\* the entry files of the graph
Entries(g) == {x \in Nodes(g) : IsEntryFile(x)}

\* the closure of an entry file: the files reached from it, itself included
Closure(g, x) == ReachedFrom(g, {x})

\* the sum of the closure sizes of the files of s
RECURSIVE ClosureTotal(_, _)
ClosureTotal(g, s) ==
    IF s = {} THEN 0
    ELSE LET x == CHOOSE y \in s : TRUE
         IN  Cardinality(Closure(g, x)) + ClosureTotal(g, s \ {x})

(* C16: analyzeFilesPerFeature scores the average closure size over all    *)
(* entry files (the files whose path contains resource, route, handler,    *)
(* controller or endpoint, whatever the case of its letters) in buckets:   *)
(* an average of at most 5 gives 1.0, at most 10 gives 0.8, at most 20     *)
(* gives 0.5 and a larger one 0.2.                                         *)
C16_AverageClosureBuckets ==
    (Analyzed /\ Entries(graph[1]) # {}) =>
        LET total == ClosureTotal(graph[1], Entries(graph[1]))
            n == Cardinality(Entries(graph[1]))
        IN  /\ Range(analysis[1].transitiveImports.keys) = Entries(graph[1])
            /\ \A x \in Entries(graph[1]) :
                   analysis[1].transitiveImports.val[x] = Cardinality(Closure(graph[1], x))
            /\ ResultOf("10.7").score =
                   IF total <= 5 * n THEN Fraction(1, 1)
                   ELSE IF total <= 10 * n THEN Fraction(8, 10)
                   ELSE IF total <= 20 * n THEN Fraction(5, 10)
                   ELSE Fraction(2, 10)

\* two entry files, api/UserController.ts with a closure of 9 files and
\* Routes/users.ts with a closure of 1: the average is 5 and the score 1.0,
\* where the largest closure and the sum would both give 0.8
C16_Witness ==
    /\ Analyzed
    /\ Entries(graph[1]) = {<<"src", "api", "UserController.ts">>,
                            <<"src", "Routes", "users.ts">>}
    /\ analysis[1].transitiveImports.val[<<"src", "api", "UserController.ts">>] = 9
    /\ analysis[1].transitiveImports.val[<<"src", "Routes", "users.ts">>] = 1
    /\ ResultOf("10.7").score = Fraction(1, 1)
    /\ ~ResultOf("10.7").excluded

\* the analyzed source files that were counted as barrels
Barrels == Range(analysis[1].barrels)

\* the source file is index-named: its file name is index.ts or index.tsx
IndexNamed(file) == file.path[Len(file.path)] \in {"index.ts", "index.tsx"}

\* the re-exports of the file are at least 50% of its top-level statements;
\* a file without statements has no such ratio
MostlyReExports(file) ==
    file.statements > 0 /\ 100 * file.exportDecls >= 50 * file.statements

(* C18: analyzeBarrelFiles counts a file as a barrel if and only if it is  *)
(* index-named and its re-export statements are at least 50% of its        *)
(* top-level statements: an index file at exactly 50% is flagged, one at   *)
(* 40% is not, and a file not named index is never flagged whatever its    *)
(* ratio.                                                                  *)
C18_BarrelIffIndexAndHalfReExports ==
    Analyzed =>
        /\ \A i \in DOMAIN files :
               files[i] \in Barrels <=> (IndexNamed(files[i]) /\ MostlyReExports(files[i]))
        /\ Len(ResultOf("10.4").findings) = Cardinality(Barrels)

\* the analyzed project has an index file at 1 re-export of 2 statements
\* that is counted, an index file at 2 of 5 that is not, and a file a.ts
\* at 3 of 3 and a file b.ts of a directory index at 1 of 1 that are not
C18_Witness ==
    /\ Analyzed
    /\ \E i, j, k, l \in DOMAIN files :
           /\ IndexNamed(files[i]) /\ files[i].exportDecls = 1 /\ files[i].statements = 2
           /\ files[i] \in Barrels
           /\ IndexNamed(files[j]) /\ files[j].exportDecls = 2 /\ files[j].statements = 5
           /\ files[j] \notin Barrels
           /\ ~IndexNamed(files[k]) /\ files[k].exportDecls = 3 /\ files[k].statements = 3
           /\ files[k] \notin Barrels
           /\ files[l].path = <<"repo", "src", "index", "b.ts">>
           /\ files[l] \notin Barrels
    /\ Len(ResultOf("10.4").findings) = 1
    /\ ResultOf("10.4").score.num = 0

----------------------------------------------------------------------------
(* src/scanner.ts: scan.  Phase 1 runs the analyzers of the list one by    *)
(* one inside try/catch, then analyzeDocumentation outside of it; phase 2  *)
(* asks evaluateWithLlm; then aggregateScores gets the static results      *)
(* followed by the llm results.                                            *)
(*                                                                         *)
(* scan[1] is [order, profile, docs, llm, pc, next, staticResults, thrown, *)
(* llmResults]: pc is the phase scan is in, order the order in which the   *)
(* analyzers of the list are run and their results collected (scanner.ts   *)
(* runs them as listed, ListedOrder; the other orders are those of a scan  *)
(* that runs them concurrently and joins them), next the position in       *)
(* order, thrown the names of the analyzers whose call threw.  files is    *)
(* the project, subIssueResults the list handed to aggregateScores, runs   *)
(* that call.                                                              *)

\* lines 75-85: the names of the analyzers, as listed
analyzers ==
    <<"File metrics", "Function metrics", "Type usage", "Code noise",
      "Naming patterns", "Import graph", "Consistency", "Explicitness",
      "Test metrics">>

\* the ids of the results an analyzer returns, in the order of its return
\* statement (analyzeTypeUsage and analyzeFileMetrics: unnamed/part_003,
\* analyzeFunctionMetrics: unnamed/part_004, analyzeConsistency:
\* unnamed/part_002).
subIssueIds_ConsistencyTwice(name) ==
    CASE name = "File metrics" -> <<"4.4", "4.6", "4.5">>
      [] name = "Function metrics" -> <<"5.1", "5.2", "5.3", "5.6">>
      [] name = "Type usage" -> <<"3.1", "3.2", "3.5">>
      [] name = "Code noise" -> <<"6.1", "6.2", "6.4">>
      [] name = "Naming patterns" -> <<"1.3", "7.2", "7.3", "7.4", "7.5", "7.7">>
      [] name = "Import graph" -> <<"10.3", "10.4", "10.6", "10.7", "10.1", "10.2">>
      [] name = "Consistency" -> <<"1.5">>
      [] name = "Explicitness" -> <<"2.1", "2.2", "2.5", "2.6", "1.5">>
      [] name = "Test metrics" -> <<"4.3", "9.2", "9.5">>

subIssueIds(name) ==
    CASE name = "File metrics" -> <<"4.4", "4.6", "4.5">>
      [] name = "Function metrics" -> <<"5.1", "5.2", "5.3", "5.6">>
      [] name = "Type usage" -> <<"3.1", "3.2", "3.5">>
      [] name = "Code noise" -> <<"6.1", "6.2", "6.4">>
      [] name = "Naming patterns" -> <<"1.3", "7.2", "7.3", "7.4", "7.5", "7.7">>
      [] name = "Import graph" -> <<"10.3", "10.4", "10.6", "10.7", "10.1", "10.2">>
      [] name = "Consistency" -> <<"1.5">>
      [] name = "Explicitness" -> <<"2.1", "2.2", "2.5", "2.6">>
      [] name = "Test metrics" -> <<"4.3", "9.2", "9.5">>

\* what the analyzers other than the import graph's measure on a project is
\* given by its profile: "uniform" scores every sub-issue 0.6 with a finding
\* in a file, "graded" runs through MeasuredScores, every second result with
\* a finding without file
MeasuredScores == <<0, 100, 50, 66, 80, 42>>

Measured(profile, a, j) ==
    LET id == subIssueIds(analyzers[a])[j]
    IN  IF profile = "uniform"
        THEN SubIssueResult(id, 60, FALSE, <<FindingA>>, "measured")
        ELSE SubIssueResult(id, MeasuredScores[((a + j) % Len(MeasuredScores)) + 1], FALSE,
                            IF (a + j) % 2 = 0 THEN <<FindingB>> ELSE <<>>, "measured")

\* a score of analyzeImportGraph as the number of hundredths aggregateScores
\* works with; the scores of the scanned projects are whole hundredths
Hundredths(score) == (100 * score.num) \div score.den

\* a relative path as the string path.relative returns
PathText(relPath) ==
    CASE relPath = <<"src", "api", "UserController.ts">> -> "src/api/UserController.ts"
      [] relPath = <<"src", "lib", "index.ts">> -> "src/lib/index.ts"
      [] relPath = <<"src", "core", "index.ts">> -> "src/core/index.ts"
      [] relPath = <<"src", "core", "a.ts">> -> "src/core/a.ts"
      [] OTHER -> "src/lib/lib/m.ts"

\* the results of analyzeImportGraph as scan receives them
importGraphResults(sourceFiles) ==
    LET results == analyzeImportGraph(sourceFiles)
    IN  [i \in DOMAIN results |->
            SubIssueResult(results[i].id, Hundredths(results[i].score), results[i].excluded,
                           [k \in DOMAIN results[i].findings |->
                               [file |-> PathText(results[i].findings[k].file),
                                line |-> results[i].findings[k].line,
                                message |-> results[i].findings[k].message]],
                           results[i].summary)]

\* line 90: analyzer.fn() of the a-th analyzer of the list, when it returns
analyzerResults(a, sourceFiles, profile) ==
    IF analyzers[a] = "Import graph"
    THEN importGraphResults(sourceFiles)
    ELSE [j \in DOMAIN subIssueIds(analyzers[a]) |-> Measured(profile, a, j)]

(* namingPatterns.ts, analyzeDocumentation(rootPath).  docs gives, for the *)
(* five docFiles in order, [exists, readable, length]: whether             *)
(* fs.existsSync finds the path, whether fs.readFileSync returns its       *)
(* content (it throws for a directory or a file it may not read) and the   *)
(* length of the content.                                                  *)
DocFile(exists, readable, length) ==
    [exists |-> exists, readable |-> readable, length |-> length]

NoDoc == DocFile(FALSE, FALSE, 0)

\* lines 463-470: fs.readFileSync throws
analyzeDocumentationThrows(docs) ==
    \E i \in DOMAIN docs : docs[i].exists /\ ~docs[i].readable

\* lines 455-492, when every file found is read; lengths are multiples of 50
analyzeDocumentation(docs) ==
    LET found == SelectSeq(docs, LAMBDA d : d.exists)
        foundDocs == Len(found)
        totalDocLength == SumSeq([i \in DOMAIN found |-> found[i].length])
        score == Min(100, foundDocs * 30 + Min(70, totalDocLength \div 50))
    IN  SubIssueResult("8.1", score, FALSE,
                       IF foundDocs = 0
                       THEN <<[file |-> "", line |-> NoLine,
                               message |-> "No README.md or CLAUDE.md found"]>>
                       ELSE IF totalDocLength < 500
                       THEN <<[file |-> "", line |-> NoLine,
                               message |-> "Documentation files found but content is short"]>>
                       ELSE <<>>,
                       "documentation files found")

(* The evaluator scan imports (src/analyzers/llm/evaluator, the version    *)
(* with a provider: unnamed/part_001).  What the model or the CLI answers  *)
(* to the call made for a batch is a reply [failed, items]: failed when    *)
(* the call throws or its text holds no JSON array that parses, items the  *)
(* parsed array of [subIssueId, score, findings, summary] otherwise.       *)

\* lines 7-12
LLM_SUB_ISSUES == SelectSeq(RubricSubIssues, LAMBDA si : si.analysisType = "llm")

\* lines 87 and 111
batchSize == 8

\* lines 90-91: the number of batches and LLM_SUB_ISSUES.slice(i, i + batchSize)
BatchCount == (Len(LLM_SUB_ISSUES) + batchSize - 1) \div batchSize

Batch(b) ==
    SubSeq(LLM_SUB_ISSUES, (b - 1) * batchSize + 1, Min(b * batchSize, Len(LLM_SUB_ISSUES)))

\* lines 71-76: without an API key every llm sub-issue gets the neutral
\* score 0.5 and one finding without a file
SkippedResults ==
    [i \in DOMAIN LLM_SUB_ISSUES |->
        SubIssueResult(LLM_SUB_ISSUES[i].id, 50, FALSE,
                       <<[file |-> "", line |-> NoLine,
                          message |-> "LLM evaluation skipped (no API key)"]>>,
                       "Skipped")]

\* lines 240-258 for a text that parses: every item becomes a result under
\* the id it carries, its score clamped to 0..1
parseResponse(items) ==
    [i \in DOMAIN items |->
        SubIssueResult(items[i].subIssueId, Max(0, Min(100, items[i].score)), FALSE,
                       [k \in DOMAIN items[i].findings |->
                           [file |-> items[i].findings[k].file, line |-> NoLine,
                            message |-> items[i].findings[k].message]],
                       items[i].summary)]

\* fallbackResults returning the neutral score 0.5, not excluded
fallbackResults_Neutral(subIssues) ==
    [i \in DOMAIN subIssues |->
        SubIssueResult(subIssues[i].id, 50, FALSE,
                       <<[file |-> "", line |-> NoLine,
                          message |-> "LLM evaluation failed"]>>,
                       "LLM evaluation failed")]

\* lines 260-271
fallbackResults(subIssues) ==
    [i \in DOMAIN subIssues |->
        SubIssueResult(subIssues[i].id, 0, TRUE,
                       <<[file |-> "", line |-> NoLine,
                          message |-> "LLM evaluation failed"]>>,
                       "LLM evaluation failed")]

\* lines 125-148 and 150-162: try { parseResponse } catch { fallbackResults }
evaluateBatch(subIssues, reply) ==
    IF reply.failed THEN fallbackResults(subIssues) ELSE parseResponse(reply.items)

\* lines 88-98 and 112-122: the results of the batches, pushed batch by batch
evaluateBatches(replies) ==
    Flatten([b \in 1..BatchCount |-> evaluateBatch(Batch(b), replies[b])])

\* lines 53-77: evaluateWithLlm(sampledFiles, provider, onProgress)
evaluateWithLlm(provider, apiKey, replies) ==
    IF provider = "api" /\ ~apiKey THEN SkippedResults ELSE evaluateBatches(replies)

\* the call failed
Failed == [failed |-> TRUE, items |-> <<>>]

\* the answer asked for: one item per sub-issue of the batch
Answered(b) ==
    [failed |-> FALSE,
     items |-> [i \in DOMAIN Batch(b) |->
                   [subIssueId |-> Batch(b)[i].id, score |-> 70 - 10 * (i % 4),
                    findings |-> IF i % 2 = 0 THEN <<>>
                                 ELSE <<[file |-> "src/a.ts", message |-> "found by the model"]>>,
                    summary |-> "answered"]]]

\* an answer that also carries the ids of two static sub-issues and a score
\* outside 0..1
AnsweredBeyond(b) ==
    [failed |-> FALSE,
     items |-> Answered(b).items
               \o <<[subIssueId |-> "6.4", score |-> 10, findings |-> <<>>,
                     summary |-> "answered for a static sub-issue"],
                    [subIssueId |-> "8.1", score |-> 150, findings |-> <<>>,
                     summary |-> "answered for a static sub-issue"]>>]

----------------------------------------------------------------------------
(* Specification of scan *)

\* the number of analyzers of the list whose call may throw in one scan
MaxThrows == 1

ListedOrder == [i \in DOMAIN analyzers |-> i]

ReverseOrder == [i \in DOMAIN analyzers |-> Len(analyzers) + 1 - i]

\* the listed order with the analyzers k and k + 1 exchanged
SwappedOrder(k) ==
    [i \in DOMAIN analyzers |-> IF i = k THEN k + 1 ELSE IF i = k + 1 THEN k ELSE i]

\* the listed order started k analyzers later
RotatedOrder(k) == [i \in DOMAIN analyzers |-> ((i + k - 1) % Len(analyzers)) + 1]

Orders ==
    {ListedOrder, ReverseOrder}
    \cup {SwappedOrder(k) : k \in 1..(Len(analyzers) - 1)}
    \cup {RotatedOrder(k) : k \in 1..(Len(analyzers) - 1)}

\* What scan is run on: the files, what the analyzers measure, the
\* documentation files and llm, the provider, whether ANTHROPIC_API_KEY is
\* set and the replies to the batches.  A library without entry file, a
\* README.md of 1000 characters and no API key; a feature of 20 files behind
\* one controller, no documentation, every batch answered; the library with
\* a README.md that is a directory; the library with the CLI, whose first
\* call fails; the feature with a first answer that goes beyond the batch.
LlmRun(provider, apiKey, replies) ==
    [provider |-> provider, apiKey |-> apiKey, replies |-> replies]

ScannedProjects ==
    {[files |-> LibraryProject, profile |-> "graded",
      docs |-> <<DocFile(TRUE, TRUE, 1000), NoDoc, NoDoc, NoDoc, NoDoc>>,
      llm |-> LlmRun("api", FALSE, <<>>)],
     [files |-> FeatureProject(19, 4, FALSE), profile |-> "uniform",
      docs |-> <<NoDoc, NoDoc, NoDoc, NoDoc, NoDoc>>,
      llm |-> LlmRun("api", TRUE, [b \in 1..BatchCount |-> Answered(b)])],
     [files |-> LibraryProject, profile |-> "uniform",
      docs |-> <<DocFile(TRUE, FALSE, 0), NoDoc, NoDoc, NoDoc, NoDoc>>,
      llm |-> LlmRun("api", FALSE, <<>>)],
     [files |-> LibraryProject, profile |-> "graded",
      docs |-> <<DocFile(TRUE, TRUE, 1000), NoDoc, NoDoc, NoDoc, NoDoc>>,
      llm |-> LlmRun("cli", FALSE,
                     [b \in 1..BatchCount |-> IF b = 1 THEN Failed ELSE Answered(b)])],
     [files |-> FeatureProject(19, 4, FALSE), profile |-> "uniform",
      docs |-> <<NoDoc, NoDoc, NoDoc, NoDoc, NoDoc>>,
      llm |-> LlmRun("api", TRUE,
                     [b \in 1..BatchCount |->
                         IF b = 1 THEN AnsweredBeyond(b) ELSE Answered(b)])]}

InitScan ==
    /\ \E project \in ScannedProjects : \E order \in Orders :
           /\ files = project.files
           /\ scan = <<[order |-> order, profile |-> project.profile, docs |-> project.docs,
                        llm |-> project.llm,
                        pc |-> "static", next |-> 1, staticResults |-> <<>>,
                        thrown |-> {}, llmResults |-> <<>>]>>
    /\ graph = NoGraph
    /\ analysis = NoAnalysis
    /\ subIssueResults = <<>>
    /\ extra = 0
    /\ runs = <<>>

\* the phase after the analyzer at position next of order
AfterAnalyzer(s) ==
    [s EXCEPT !.next = @ + 1,
              !.pc = IF s.next = Len(analyzers) THEN "documentation" ELSE "static"]

\* lines 89-92: analyzer.fn() returns and its results are pushed
AnalyzerReturns ==
    /\ scan # NoScan
    /\ scan[1].pc = "static"
    /\ scan' = <<[AfterAnalyzer(scan[1]) EXCEPT
                     !.staticResults =
                         @ \o analyzerResults(scan[1].order[scan[1].next], files,
                                              scan[1].profile)]>>
    /\ UNCHANGED <<files, graph, analysis, subIssueResults, extra, runs>>

\* lines 93-95: analyzer.fn() throws; the error is logged, nothing is pushed
AnalyzerThrows ==
    /\ scan # NoScan
    /\ scan[1].pc = "static"
    /\ Cardinality(scan[1].thrown) < MaxThrows
    /\ scan' = <<[AfterAnalyzer(scan[1]) EXCEPT
                     !.thrown = @ \cup {analyzers[scan[1].order[scan[1].next]]}]>>
    /\ UNCHANGED <<files, graph, analysis, subIssueResults, extra, runs>>

\* line 100: staticResults.push(analyzeDocumentation(rootPath)), outside of
\* any try: an error thrown by analyzeDocumentation leaves scan
Documentation ==
    /\ scan # NoScan
    /\ scan[1].pc = "documentation"
    /\ scan' = IF analyzeDocumentationThrows(scan[1].docs)
               THEN <<[scan[1] EXCEPT !.pc = "aborted"]>>
               ELSE <<[scan[1] EXCEPT !.pc = "llm",
                                      !.staticResults =
                                          Append(@, analyzeDocumentation(scan[1].docs))]>>
    /\ UNCHANGED <<files, graph, analysis, subIssueResults, extra, runs>>

\* lines 116-118: llmResults = await evaluateWithLlm(sampled, provider, ...)
EvaluateWithLlm ==
    /\ scan # NoScan
    /\ scan[1].pc = "llm"
    /\ scan' = <<[scan[1] EXCEPT
                     !.pc = "scoring",
                     !.llmResults = evaluateWithLlm(scan[1].llm.provider, scan[1].llm.apiKey,
                                                    scan[1].llm.replies)]>>
    /\ UNCHANGED <<files, graph, analysis, subIssueResults, extra, runs>>

\* lines 124-125: allResults = [...staticResults, ...llmResults] is aggregated
AggregateScores ==
    /\ scan # NoScan
    /\ scan[1].pc = "scoring"
    /\ LET allResults == scan[1].staticResults \o scan[1].llmResults
       IN  /\ subIssueResults' = allResults
           /\ runs' = <<[input |-> allResults, output |-> aggregateScores(allResults)]>>
    /\ scan' = <<[scan[1] EXCEPT !.pc = "done"]>>
    /\ UNCHANGED <<files, graph, analysis, extra>>

NextScan ==
    \/ AnalyzerReturns
    \/ AnalyzerThrows
    \/ Documentation
    \/ EvaluateWithLlm
    \/ AggregateScores

SpecScan == InitScan /\ [][NextScan]_vars

----------------------------------------------------------------------------
(* Vocabulary of the properties of scan: they are stated over the state    *)
(* scan leaves once aggregateScores has returned, runs[1] being that call. *)

Scanned == scan # NoScan /\ scan[1].pc = "done"

Aborted == scan # NoScan /\ scan[1].pc = "aborted"

Threw(name) == name \in scan[1].thrown

\* the sub-issue with the given id in the categories of the report
ReportedSubIssue(id) ==
    CHOOSE si \in UNION {Range(runs[1].output.categories[c].subIssues) :
                            c \in DOMAIN runs[1].output.categories} : si.id = id

\* the category of the report with the given id
ReportedCategory(id) ==
    CHOOSE cat \in Range(runs[1].output.categories) : cat.id = id

\* the number of sub-issues of the category that count as evaluated, its n
EvaluatedIn(cat) == Cardinality({j \in DOMAIN cat.subIssues : ~cat.subIssues[j].excluded})

(* C17: when no file of the graph matches an entry pattern, the            *)
(* files-per-feature sub-issue 10.7 is neutral/skipped rather than scored: *)
(* in the report it is not an evaluated sub-issue of category 10, so it is *)
(* not counted in that category's n and contributes no points.             *)
C17_NoEntryFileNotEvaluated ==
    (Scanned /\ ~Threw("Import graph") /\ Entries(buildImportGraph(files)) = {}) =>
        LET others == {j \in DOMAIN ReportedCategory(10).subIssues :
                          /\ ReportedCategory(10).subIssues[j].id # "10.7"
                          /\ ~ReportedCategory(10).subIssues[j].excluded}
        IN  /\ ReportedSubIssue("10.7").excluded
            /\ EvaluatedIn(ReportedCategory(10)) = Cardinality(others)

\* the results the analyzer at position a of the list returned in this scan
ReturnedBy(a) == analyzerResults(a, files, scan[1].profile)

\* the ids of the results the evaluator returned in this scan
LlmIds == {scan[1].llmResults[i].id : i \in DOMAIN scan[1].llmResults}

\* in the report of a finished scan every rubric sub-issue of a listed
\* analyzer that threw is an excluded result with score 0, and every result
\* an analyzer returned is reported as returned, the ids the evaluator
\* returned a result for set aside
ListedAnalyzerThrowKept ==
    Scanned =>
        \A a \in DOMAIN analyzers :
            IF Threw(analyzers[a])
            THEN \A id \in (Range(subIssueIds(analyzers[a])) \cap RubricIds) \ LlmIds :
                     /\ ReportedSubIssue(id).excluded
                     /\ ReportedSubIssue(id).score = 0
            ELSE \A r \in Range(ReturnedBy(a)) :
                     r.id \in RubricIds \ LlmIds => ReportedSubIssue(r.id) = r

(* C19: if any analyzer invoked by scan during static analysis (each of    *)
(* the nine listed analyzers and the documentation analyzer) throws, the   *)
(* scan does not abort: it still aggregates and produces a report, in      *)
(* which every sub-issue of the failed analyzer is an excluded result      *)
(* contributing no points, the results of the other analyzers being        *)
(* unaffected.                                                             *)
C19_ThrowingAnalyzerNeverAborts ==
    /\ ~Aborted
    /\ ListedAnalyzerThrowKept

\* the results of the analyzers a, a + 1, ... of the list that returned in
\* this scan, collected in the listed order
RECURSIVE ListedFrom(_)
ListedFrom(a) ==
    IF a > Len(analyzers) THEN <<>>
    ELSE (IF Threw(analyzers[a]) THEN <<>> ELSE ReturnedBy(a)) \o ListedFrom(a + 1)

\* the list aggregateScores gets when the analyzers run as listed
ListedResults ==
    ListedFrom(1) \o <<analyzeDocumentation(scan[1].docs)>> \o scan[1].llmResults

(* C20: the aggregated outcome does not depend on the order in which the   *)
(* static analyzers run and their result lists are collected: in whatever  *)
(* order they were collected, aggregateScores returns the categories, the  *)
(* overall score and the recommendations it returns for the listed order.  *)
C20_OrderIndependent ==
    Scanned =>
        /\ runs[1].output.categories = aggregateScores(ListedResults).categories
        /\ runs[1].output.overallScore = aggregateScores(ListedResults).overallScore
        /\ runs[1].output.recommendations = aggregateScores(ListedResults).recommendations

\* a scan that collected the results of all nine analyzers in the reverse
\* of the listed order, a list that differs from the listed one, and
\* returned recommendations
C20_Witness ==
    /\ Scanned
    /\ scan[1].order = ReverseOrder
    /\ scan[1].thrown = {}
    /\ subIssueResults # ListedResults
    /\ subIssueResults[1].id = "4.3"
    /\ Len(runs[1].output.recommendations) > 1

----------------------------------------------------------------------------
(* The closed paths of a graph in discovery order, without any cap: the    *)
(* traversal starts from every key in key order with nothing seen, follows *)
(* the edges of a file in their order, and on reaching a file of the       *)
(* current path emits the path from that file on, closed by the file.      *)

RECURSIVE Discover(_, _, _, _)
RECURSIVE DiscoverDeps(_, _, _, _, _, _)
Discover(g, seen, node, path) ==
    IF IndexOf(path, node) > 0
    THEN [seen |-> seen,
          found |-> <<Append(SubSeq(path, IndexOf(path, node), Len(path)), node)>>]
    ELSE IF node \in seen THEN [seen |-> seen, found |-> <<>>]
    ELSE DiscoverDeps(g, seen \cup {node}, Deps(g, node), 1, Append(path, node), <<>>)

DiscoverDeps(g, seen, deps, k, path, found) ==
    IF k > Len(deps) THEN [seen |-> seen, found |-> found]
    ELSE LET below == Discover(g, seen, deps[k], path)
         IN  CASE Evaluated(below) ->
                 DiscoverDeps(g, below.seen, deps, k + 1, path, found \o below.found)

\* the closed paths discovered from the first k keys
RECURSIVE DiscoveredUpTo(_, _)
DiscoveredUpTo(g, k) ==
    IF k = 0 THEN <<>>
    ELSE DiscoveredUpTo(g, k - 1) \o Discover(g, {}, g.keys[k], <<>>).found

Discovered(g) == DiscoveredUpTo(g, Len(g.keys))

(* C21: the recorded cycle list holds at most 50 cycles; once it holds 50  *)
(* no further cycle is added and no further start node is traversed; the   *)
(* cycles are recorded in discovery order (start nodes in graph key order, *)
(* then DFS edge order) and at most the first 20 become findings.          *)
C21_CycleCapAndDiscoveryOrder ==
    Analyzed =>
        LET g == graph[1]
            cycles == analysis[1].cycles
            all == Discovered(g)
            findings == ResultOf("10.3").findings
        IN  /\ Len(cycles) <= 50
            /\ cycles = SubSeq(all, 1, Min(50, Len(all)))
            /\ \A k \in 1..analysis[1].starts : Len(DiscoveredUpTo(g, k - 1)) < 50
            /\ analysis[1].starts < Len(g.keys) =>
                   Len(DiscoveredUpTo(g, analysis[1].starts)) >= 50
            /\ Len(findings) = Min(20, Len(cycles))
            /\ \A i \in DOMAIN findings : findings[i].file = cycles[i][1]

\* five files importing one another and themselves have 75 closed paths to
\* discover: 50 are recorded, the 50th during the traversal from the fourth
\* key, the fifth key is not started from and 20 findings are returned
C21_Witness ==
    /\ Analyzed
    /\ Len(graph[1].keys) = 5
    /\ Len(Discovered(graph[1])) = 75
    /\ Len(analysis[1].cycles) = 50
    /\ analysis[1].starts = 4
    /\ Len(ResultOf("10.3").findings) = 20

----------------------------------------------------------------------------
(* The evaluator within scan *)

\* the ids of the llm sub-issues of batch b
BatchIds(b) == {Batch(b)[i].id : i \in DOMAIN Batch(b)}

\* the llm sub-issues the evaluator of this scan had no evaluation for:
\* all of them without an API key, those of a batch whose call failed
FellBack ==
    IF scan[1].llm.provider = "api" /\ ~scan[1].llm.apiKey
    THEN {LLM_SUB_ISSUES[i].id : i \in DOMAIN LLM_SUB_ISSUES}
    ELSE UNION {BatchIds(b) : b \in {c \in 1..BatchCount : scan[1].llm.replies[c].failed}}

(* C22: in the evaluator scan uses, a missing API key and a failed call    *)
(* both make the affected llm sub-issues fall back to the neutral score    *)
(* 0.5, counted as an evaluated result of its category: in the report of a *)
(* finished scan each of them has score 0.5 and is not excluded.           *)
C22_FallbackIsNeutralAndEvaluated ==
    Scanned =>
        \A id \in FellBack :
            /\ ReportedSubIssue(id).score = 50
            /\ ~ReportedSubIssue(id).excluded

\* the static sub-issues of the rubric
StaticIds ==
    {RubricSubIssues[i].id : i \in {j \in DOMAIN RubricSubIssues :
                                       RubricSubIssues[j].analysisType = "static"}}

\* the last of the results with the given id, the sequence holding one
LastWithId(results, id) ==
    results[CHOOSE i \in DOMAIN results :
                /\ results[i].id = id
                /\ \A j \in DOMAIN results : results[j].id = id => j <= i]

(* C29: whatever ids the evaluator's results carry, the result the report  *)
(* of a finished scan holds for a static sub-issue is the one its static   *)
(* analyzer produced in that scan.                                         *)
C29_LlmNeverDecidesStatic ==
    Scanned =>
        \A id \in StaticIds :
            (\E i \in DOMAIN scan[1].staticResults : scan[1].staticResults[i].id = id)
                => ReportedSubIssue(id) = LastWithId(scan[1].staticResults, id)

\* the report holds a sub-issue with the given id in the category cat
ResolvedIn(cat, id) ==
    \E j \in DOMAIN ReportedCategory(cat).subIssues :
        ReportedCategory(cat).subIssues[j].id = id

\* the report holds the result r as a sub-issue of some category
Resolved(r) ==
    \E c \in DOMAIN runs[1].output.categories :
        \E j \in DOMAIN runs[1].output.categories[c].subIssues :
            runs[1].output.categories[c].subIssues[j].id = r.id

(* C24: every sub-issue result a static analyzer produced in a finished    *)
(* scan is resolved into its category by aggregateScores: the report holds *)
(* a sub-issue for it, the middleware-chain result 10.2 among the          *)
(* sub-issues scored in category 10 and the file-export-match result 7.7   *)
(* among those scored in category 7.                                       *)
C24_EveryStaticResultResolved ==
    Scanned =>
        /\ \A a \in DOMAIN analyzers :
               ~Threw(analyzers[a]) => \A r \in Range(ReturnedBy(a)) : Resolved(r)
        /\ ~Threw("Import graph") => ResolvedIn(10, "10.2")
        /\ ~Threw("Naming patterns") => ResolvedIn(7, "7.7")

----------------------------------------------------------------------------
(* The recorded cycles and closures against the edges of the graph *)

\* the import graph has the edge x -> y
Edge(g, x, y) == y \in Successors(g, x)

\* c is f0, f1, ..., fk, f0 with f0..fk pairwise distinct and every
\* consecutive pair an edge
ClosedPath(g, c) ==
    /\ Len(c) >= 2
    /\ c[1] = c[Len(c)]
    /\ \A i, j \in 1..(Len(c) - 1) : c[i] = c[j] => i = j
    /\ \A i \in 1..(Len(c) - 1) : Edge(g, c[i], c[i + 1])

(* C25: every cycle recorded by analyzeCircularDeps is a closed import     *)
(* path that returns to its start: f0, f1, ..., fk, f0 with k >= 0, the    *)
(* files f0..fk pairwise distinct and every consecutive pair, fk to f0     *)
(* included, an edge of the import graph.                                  *)
C25_RecordedCyclesAreClosedPaths ==
    Analyzed => \A i \in DOMAIN analysis[1].cycles : ClosedPath(graph[1], analysis[1].cycles[i])

\* a self-import is recorded as f0, f0 and a cycle over three files is
\* reached over a file that is not part of it
C25_Witness ==
    /\ Analyzed
    /\ \E i \in DOMAIN analysis[1].cycles : Len(analysis[1].cycles[i]) = 2
    /\ \E i \in DOMAIN analysis[1].cycles :
           /\ Len(analysis[1].cycles[i]) = 4
           /\ graph[1].keys[1] \notin Range(analysis[1].cycles[i])
           /\ ~OnCycle(graph[1], graph[1].keys[1])

\* the files on at least one directed cycle
CycleFiles(g) == {x \in Nodes(g) : OnCycle(g, x)}

(* C27: whenever analyzeCircularDeps ends with fewer than 50 recorded      *)
(* cycles, the files it counts as involved in cycles are exactly the files *)
(* on at least one directed cycle of the import graph, and the score is    *)
(* max(0, 1 - 5 * their number / the number of files).                     *)
C27_CycleFilesExact ==
    (Analyzed /\ Len(analysis[1].cycles) < 50) =>
        LET g == graph[1]
            counted == filesInCycles(analysis[1].cycles)
            n == Len(g.keys)
        IN  /\ counted = CycleFiles(g)
            /\ n > 0 => ResultOf("10.3").score =
                            IF 5 * Cardinality(CycleFiles(g)) >= n THEN Fraction(0, n)
                            ELSE Fraction(n - 5 * Cardinality(CycleFiles(g)), n)

\* a file on a cycle is first met from an earlier key over a file already
\* visited, and a file of the graph is on no cycle
C27_Witness ==
    /\ Analyzed
    /\ Len(analysis[1].cycles) < 50
    /\ CycleFiles(graph[1]) # {}
    /\ CycleFiles(graph[1]) # Nodes(graph[1])
    /\ filesInCycles(cyclesFrom_GlobalVisited(graph[1], 1, <<>>)) # CycleFiles(graph[1])

(* C30: the closure size analyzeFilesPerFeature records for an entry file  *)
(* counts the entry file together with every distinct file reachable from  *)
(* it over import edges, without a cap: it is 1 for an entry file with no  *)
(* imports and a file reached over several paths is counted once.          *)
C30_ClosureCountsDistinctReachable ==
    Analyzed =>
        \A x \in Entries(graph[1]) :
            LET counted == analysis[1].transitiveImports.val[x]
                reached == Closure(graph[1], x)
            IN  /\ counted = Cardinality(reached)
                /\ x \in reached
                /\ Successors(graph[1], x) = {} => counted = 1

\* an entry file at the top of a diamond: four files, the last reached over
\* two paths
C30_Witness ==
    /\ Analyzed
    /\ \E a \in Entries(graph[1]) : \E b, c, d \in Nodes(graph[1]) :
           /\ Diamond(graph[1], a, b, c, d)
           /\ analysis[1].transitiveImports.val[a] = 4

\* the source files in the opposite order: the same files and imports, the
\* keys of the graph iterated from the last to the first
Reversed(sourceFiles) ==
    [k \in DOMAIN sourceFiles |-> sourceFiles[Len(sourceFiles) + 1 - k]]

(* C28: the depth analyzeMaxImportDepth records for each file, and the     *)
(* project maximum, are the same for every iteration order of the same     *)
(* files and edges, graphs with cycles included: here, for the files       *)
(* iterated in the opposite order.                                         *)
C28_DepthsOrderIndependent ==
    Analyzed =>
        LET depths == importDepths(buildImportGraph(Reversed(files)))
        IN  /\ \A x \in Nodes(graph[1]) : depths.val[x] = analysis[1].depths.val[x]
            /\ maxImportDepth(depths) = analysis[1].maxDepth

----------------------------------------------------------------------------
(* scan on a large project: src/scanner.ts lines 50-85 with                *)
(* sampleForAnalysis (lines 259-291), and the text-based analyzers of      *)
(* src/analyzers/static/codeNoise.ts on the project they are handed.       *)
(*                                                                         *)
(* A source file is here [path, found, lines, todoLines, commentedBlocks]: *)
(* path numbers the files, found is the set of the patterns of             *)
(* sampleForAnalysis that occur in the lower-cased path, lines is          *)
(* getEndLineNumber(), todoLines the number of lines of its text that      *)
(* match todoPattern and commentedBlocks the number of runs of lines that  *)
(* match one of the codePatterns.                                          *)

\* line 55
MAX_FILES_FOR_FULL_AST == 2000

\* lines 262-273: the priority of a file
priority(f) ==
    (IF "model" \in f.found THEN 3 ELSE 0)
    + (IF f.found \cap {"resource", "route", "handler"} # {} THEN 3 ELSE 0)
    + (IF f.found \cap {".test.", ".spec."} # {} THEN 2 ELSE 0)
    + (IF "middleware" \in f.found THEN 1 ELSE 0)
    + (IF f.lines > 200 THEN 2 ELSE IF f.lines > 50 THEN 1 ELSE 0)
    - (IF f.found \cap {".d.ts", "generated"} # {} THEN 5 ELSE 0)

\* line 277: scored.sort((a, b) => b.priority - a.priority), a stable sort:
\* the files of the largest priority of those in priorities first
RECURSIVE sortedByPriority(_, _)
sortedByPriority(sourceFiles, priorities) ==
    IF priorities = {} THEN <<>>
    ELSE LET top == CHOOSE p \in priorities : \A q \in priorities : q <= p
             first == SelectSeq(sourceFiles, LAMBDA f : priority(f) = top)
         IN  CASE Evaluated(first) ->
                 first \o sortedByPriority(sourceFiles, priorities \ {top})

\* lines 283-287: the shuffle draws its exchanges from Math.random and can
\* end with any permutation of remainingFiles; the one taken here for the
\* draw j starts at the j-th file and goes round
Shuffled(remainingFiles, j) ==
    [i \in DOMAIN remainingFiles |->
        remainingFiles[((j + i - 2) % Len(remainingFiles)) + 1]]

\* lines 260-277: the files sorted by priority
scoredFiles(sourceFiles) ==
    sortedByPriority(sourceFiles, {priority(sourceFiles[i]) : i \in DOMAIN sourceFiles})

\* Math.floor(maxFiles * 0.7)
TopCount(maxFiles) == (maxFiles * 7) \div 10

\* lines 280-290 of sampleForAnalysis(files, maxFiles) on the sorted files,
\* j being what Math.random draws
sampleOf(scored, maxFiles, j) ==
    LET topFiles == SubSeq(scored, 1, Min(TopCount(maxFiles), Len(scored)))
        remainingFiles == SubSeq(scored, TopCount(maxFiles) + 1, Len(scored))
        randomSample == Slice(Shuffled(remainingFiles, j), maxFiles - Len(topFiles))
    IN  topFiles \o randomSample

\* config.ts line 136
todoCount == [good |-> 5, acceptable |-> 20, bad |-> 50]

\* findings.slice(0, 30)
MaxNoiseFindings == 30

\* the sum of value over the files, added up value by value
RECURSIVE SumByValue(_, _, _)
SumByValue(sourceFiles, value(_), values) ==
    IF values = {} THEN 0
    ELSE LET v == CHOOSE w \in values : TRUE
         IN  v * Cardinality({i \in DOMAIN sourceFiles : value(sourceFiles[i]) = v})
             + SumByValue(sourceFiles, value, values \ {v})

\* findings.sort((a, b) => (b.value ?? 0) - (a.value ?? 0)), a stable sort
RECURSIVE findingsByValue(_, _)
findingsByValue(findings, values) ==
    IF values = {} THEN <<>>
    ELSE LET top == CHOOSE v \in values : \A w \in values : w <= v
         IN  SelectSeq(findings, LAMBDA finding : finding.value = top)
                 \o findingsByValue(findings, values \ {top})

\* one finding for every file whose value is above least, in file order
noiseFindings(sourceFiles, value(_), least, message) ==
    LET found == SelectSeq(sourceFiles, LAMBDA f : value(f) > least)
    IN  [i \in DOMAIN found |->
            [file |-> found[i].path, line |-> NoLine, message |-> message,
             value |-> value(found[i])]]

TodoLines(f) == f.todoLines

CommentedBlocks(f) == f.commentedBlocks

\* codeNoise.ts lines 73-127
analyzeCommentedOutCode(sourceFiles) ==
    LET totalFiles == Len(sourceFiles)
        counted == SelectSeq(sourceFiles, LAMBDA f : f.commentedBlocks > 2)
        totalCommentedBlocks ==
            SumByValue(counted, CommentedBlocks, {counted[i].commentedBlocks : i \in DOMAIN counted})
        findings == noiseFindings(sourceFiles, CommentedBlocks, 2, "blocks of commented-out code")
    IN  SubIssueResult("6.2",
                       IF totalFiles > 0
                       THEN Clamp01(Fraction(totalFiles * 2 - totalCommentedBlocks, totalFiles * 2))
                       ELSE One,
                       FALSE,
                       Slice(findingsByValue(findings, {findings[i].value : i \in DOMAIN findings}),
                             MaxNoiseFindings),
                       "blocks of commented-out code found")

\* lines 159-167 of analyzeStaleTodos
staleTodosScore(totalTodos) ==
    IF totalTodos <= todoCount.good THEN One
    ELSE IF totalTodos <= todoCount.acceptable THEN Fraction(7, 10)
    ELSE IF totalTodos <= todoCount.bad THEN Fraction(4, 10)
    ELSE Fraction(Max(0, 100 - (totalTodos - todoCount.bad)), 500)

\* codeNoise.ts lines 129-178
analyzeStaleTodos(sourceFiles) ==
    LET totalTodos ==
            SumByValue(sourceFiles, TodoLines, {sourceFiles[i].todoLines : i \in DOMAIN sourceFiles})
        findings == noiseFindings(sourceFiles, TodoLines, 0, "TODO/FIXME/HACK comments")
    IN  SubIssueResult("6.4", staleTodosScore(totalTodos), FALSE,
                       Slice(findingsByValue(findings, {findings[i].value : i \in DOMAIN findings}),
                             MaxNoiseFindings),
                       "TODO/FIXME/HACK comments found")

\* the text-based results of analyzeCodeNoise (lines 7-15): 6.2 and 6.4
codeNoiseTextResults(sourceFiles) ==
    <<analyzeCommentedOutCode(sourceFiles), analyzeStaleTodos(sourceFiles)>>

\* the k-th file of a large project.  Of ten files three are models, two
\* handlers of models, one a test, one a middleware, two of no kind and one
\* a declaration file; every hundredth file, a declaration file, holds a
\* TODO and so does the file 2001; eight files of no kind hold three blocks
\* of commented-out code
LargeFile(k) ==
    [path |-> k,
     found |-> CASE k % 10 \in {0, 1, 2} -> {"model"}
                 [] k % 10 \in {3, 4} -> {"handler", "model"}
                 [] k % 10 = 5 -> {".test."}
                 [] k % 10 = 6 -> {"middleware"}
                 [] k % 10 \in {7, 8} -> {}
                 [] OTHER -> {".d.ts"},
     lines |-> CASE k % 3 = 0 -> 250 [] k % 3 = 1 -> 60 [] OTHER -> 10,
     todoLines |-> IF k % 100 = 9 \/ k % 2001 = 0 THEN 1 ELSE 0,
     commentedBlocks |-> IF k % 250 = 8 THEN 3 ELSE 0]

LargeProject(n) == [k \in 1..n |-> LargeFile(k)]

\* a project of exactly MAX_FILES_FOR_FULL_AST files and one of one more
LargeProjects ==
    {LargeProject(MAX_FILES_FOR_FULL_AST), LargeProject(MAX_FILES_FOR_FULL_AST + 1)}

(* scan[1] is [pc, sourceFiles]: sourceFiles the files of sampledProject,  *)
(* files being allSourceFiles.                                             *)
InitSample ==
    /\ files \in LargeProjects
    /\ scan = <<[pc |-> "loaded", sourceFiles |-> <<>>]>>
    /\ graph = NoGraph
    /\ analysis = NoAnalysis
    /\ subIssueResults = <<>>
    /\ extra = 0
    /\ runs = <<>>

\* lines 56-60 for a project of at most MAX_FILES_FOR_FULL_AST files and
\* lines 71-73: sampledProject gets every file
KeepAll ==
    /\ scan[1].pc = "loaded"
    /\ Len(files) <= MAX_FILES_FOR_FULL_AST
    /\ scan' = <<[pc |-> "static", sourceFiles |-> files]>>
    /\ UNCHANGED <<files, graph, analysis, subIssueResults, extra, runs>>

\* lines 56-60 for a larger project and lines 71-73: sampledProject gets the
\* files sampleForAnalysis returns
Sample ==
    /\ scan[1].pc = "loaded"
    /\ Len(files) > MAX_FILES_FOR_FULL_AST
    /\ LET scored == scoredFiles(files)
       IN  CASE Evaluated(scored) ->
               \E j \in 1..(Len(scored) - TopCount(MAX_FILES_FOR_FULL_AST)) :
                   scan' = <<[pc |-> "static",
                              sourceFiles |-> sampleOf(scored, MAX_FILES_FOR_FULL_AST, j)]>>
    /\ UNCHANGED <<files, graph, analysis, subIssueResults, extra, runs>>

\* line 78 and lines 87-92: analyzeCodeNoise(sampledProject, rootPath)
CodeNoise ==
    /\ scan[1].pc = "static"
    /\ subIssueResults' = codeNoiseTextResults(scan[1].sourceFiles)
    /\ scan' = <<[scan[1] EXCEPT !.pc = "done"]>>
    /\ UNCHANGED <<files, graph, analysis, extra, runs>>

NextSample ==
    \/ KeepAll
    \/ Sample
    \/ CodeNoise

SpecSample == InitSample /\ [][NextSample]_vars

\* the score of both results is the same number
SameScore(a, b) == a.score.num * b.score.den = b.score.num * a.score.den

(* C23: for a project of more than 2,000 source files only the AST         *)
(* analyses run on the sampled subset; the text-based checks               *)
(* (commented-out code, TODO counts) are computed over the full set of     *)
(* source files: their results are those of allSourceFiles.                *)
C23_TextChecksOnFullSet ==
    (scan[1].pc = "done" /\ Len(files) > MAX_FILES_FOR_FULL_AST) =>
        LET full == codeNoiseTextResults(files)
        IN  \A i \in DOMAIN full :
                /\ subIssueResults[i].id = full[i].id
                /\ SameScore(subIssueResults[i], full[i])
                /\ subIssueResults[i].findings = full[i].findings

----------------------------------------------------------------------------
(* The traversals of analyzeImportGraph step by step.  The recursions of   *)
(* analyzeCircularDeps (dfs) and analyzeMaxImportDepth (getDepth) run on a *)
(* stack of frames [node, pathStack, k, maxChildDepth]: k = 0 in a call    *)
(* that has not passed its first tests, otherwise the position of the next *)
(* dependency in its loop.  analysis[1] is the state of the run:           *)
(* [pc, i, stack, visited, inStack, cycles, depths, entries, queue,        *)
(* looping, transitiveImports], pc the analyzer that runs, i the position  *)
(* the loop over the keys (over the entry files) has reached.              *)

\* the deepest the stack of calls may get
MaxStack == 5

TraversedPaths ==
    <<<<"repo", "src", "api", "UserController.ts">>,
      <<"repo", "src", "Routes", "users.ts">>,
      ChainPath(1)>>

\* the imports of a file: those of the files of TraversedPaths with position in
\* targets, in that order
ImportsOf(targets) ==
    LET chosen == SelectSeq(<<1, 2, 3>>, LAMBDA j : j \in targets)
    IN  [k \in DOMAIN chosen |-> ImportOf(TraversedPaths[chosen[k]])]

\* every project of the three files: each file imports any of the three,
\* itself included
TraversedProjects ==
    {[k \in 1..3 |-> SourceFile(TraversedPaths[k], ImportsOf(targets[k]), 0, 1, <<>>, <<>>, 0)] :
        targets \in [1..3 -> SUBSET (1..3)]}

Frame(node, pathStack) ==
    [node |-> node, pathStack |-> pathStack, k |-> 0, maxChildDepth |-> 0]

Top(stack) == stack[Len(stack)]

Pop(stack) == SubSeq(stack, 1, Len(stack) - 1)

\* the top frame replaced
SetTop(stack, frame) == [stack EXCEPT ![Len(stack)] = frame]

\* return value: the frame of the call is left and the caller's loop takes
\* maxChildDepth = Math.max(maxChildDepth, value)
Return(stack, value) ==
    IF Len(stack) = 1 THEN <<>>
    ELSE LET caller == stack[Len(stack) - 1]
         IN  Append(SubSeq(stack, 1, Len(stack) - 2),
                    [caller EXCEPT !.maxChildDepth = Max(@, value)])

\* line 333: visited.has(file), never true
OnCurrentPath_Never(t, file) == FALSE

\* line 333: visited.has(file)
OnCurrentPath(t, file) == file \in t.visited

InitTraverse ==
    /\ files \in TraversedProjects
    /\ graph = NoGraph
    /\ analysis = NoAnalysis
    /\ subIssueResults = <<>>
    /\ extra = 0
    /\ runs = <<>>
    /\ scan = NoScan

\* lines 186-187 and 226-231: the graph is built and analyzeCircularDeps
\* begins
BuildGraph ==
    /\ graph = NoGraph
    /\ graph' = <<buildImportGraph(files)>>
    /\ analysis' = <<[pc |-> "cycles", i |-> 0, stack |-> <<>>, visited |-> {},
                      inStack |-> {}, cycles |-> <<>>, depths |-> EmptyMap,
                      entries |-> <<>>, queue |-> <<>>, looping |-> FALSE,
                      transitiveImports |-> EmptyMap]>>
    /\ UNCHANGED <<files, subIssueResults, extra, runs, scan>>

Running(pc) == graph # NoGraph /\ analysis # NoAnalysis /\ analysis[1].pc = pc

Step(t) ==
    /\ analysis' = <<t>>
    /\ UNCHANGED <<files, graph, subIssueResults, extra, runs, scan>>

\* lines 262-265: the next key, visited.clear(), inStack.clear(), dfs(node, [])
CyclesStart ==
    /\ Running("cycles")
    /\ LET t == analysis[1]  g == graph[1]
       IN  /\ t.stack = <<>>
           /\ t.i < Len(g.keys)
           /\ t.i >= 1 => Len(t.cycles) < MaxCycles
           /\ Step([t EXCEPT !.i = @ + 1, !.visited = {}, !.inStack = {},
                             !.stack = <<Frame(g.keys[t.i + 1], <<>>)>>])

\* line 266 or the end of the loop: analyzeCircularDeps is left for
\* analyzeMaxImportDepth
CyclesEnd ==
    /\ Running("cycles")
    /\ LET t == analysis[1]  g == graph[1]
       IN  /\ t.stack = <<>>
           /\ t.i = Len(g.keys) \/ (t.i >= 1 /\ Len(t.cycles) >= MaxCycles)
           /\ Step([t EXCEPT !.pc = "depths", !.i = 0, !.visited = {}, !.inStack = {}])

\* lines 234-244: the node is on the stack
DfsCycle ==
    /\ Running("cycles")
    /\ LET t == analysis[1]
       IN  /\ t.stack # <<>>
           /\ Top(t.stack).k = 0
           /\ Top(t.stack).node \in t.inStack
           /\ LET frame == Top(t.stack)
                  cycleStart == IndexOf(frame.pathStack, frame.node)
              IN  Step([t EXCEPT
                           !.stack = Pop(@),
                           !.cycles =
                               IF cycleStart >= 1 /\ Len(@) < MaxCycles
                               THEN Append(@, Append(SubSeq(frame.pathStack, cycleStart,
                                                            Len(frame.pathStack)),
                                                     frame.node))
                               ELSE @])

\* line 246: the node was visited
DfsVisited ==
    /\ Running("cycles")
    /\ LET t == analysis[1]
       IN  /\ t.stack # <<>>
           /\ Top(t.stack).k = 0
           /\ Top(t.stack).node \notin t.inStack
           /\ Top(t.stack).node \in t.visited
           /\ Step([t EXCEPT !.stack = Pop(@)])

\* lines 248-250
DfsEnter ==
    /\ Running("cycles")
    /\ LET t == analysis[1]
       IN  /\ t.stack # <<>>
           /\ Top(t.stack).k = 0
           /\ Top(t.stack).node \notin t.inStack
           /\ Top(t.stack).node \notin t.visited
           /\ LET frame == Top(t.stack)
              IN  Step([t EXCEPT
                           !.visited = @ \cup {frame.node},
                           !.inStack = @ \cup {frame.node},
                           !.stack = SetTop(@, [frame EXCEPT
                                                   !.pathStack = Append(@, frame.node),
                                                   !.k = 1])])

\* lines 254-256: dfs(dep, [...pathStack]) for the next dependency
DfsCall ==
    /\ Running("cycles")
    /\ LET t == analysis[1]  g == graph[1]
       IN  /\ t.stack # <<>>
           /\ Top(t.stack).k >= 1
           /\ Top(t.stack).k <= Len(Deps(g, Top(t.stack).node))
           /\ Len(t.stack) < MaxStack
           /\ LET frame == Top(t.stack)
              IN  Step([t EXCEPT
                           !.stack = Append(SetTop(@, [frame EXCEPT !.k = @ + 1]),
                                            Frame(Deps(g, frame.node)[frame.k],
                                                  frame.pathStack))])

\* line 259: inStack.delete(node) and the return
DfsReturn ==
    /\ Running("cycles")
    /\ LET t == analysis[1]  g == graph[1]
       IN  /\ t.stack # <<>>
           /\ Top(t.stack).k > Len(Deps(g, Top(t.stack).node))
           /\ Step([t EXCEPT !.inStack = @ \ {Top(t.stack).node}, !.stack = Pop(@)])

\* lines 354-355: getDepth(file, new Set()) for the next key
DepthsStart ==
    /\ Running("depths")
    /\ LET t == analysis[1]  g == graph[1]
       IN  /\ t.stack = <<>>
           /\ t.i < Len(g.keys)
           /\ Step([t EXCEPT !.i = @ + 1, !.visited = {},
                             !.stack = <<Frame(g.keys[t.i + 1], <<>>)>>])

\* the loop over the keys has ended; lines 391-396: entryFiles
DepthsEnd ==
    /\ Running("depths")
    /\ LET t == analysis[1]  g == graph[1]
       IN  /\ t.stack = <<>>
           /\ t.i = Len(g.keys)
           /\ Step([t EXCEPT !.pc = "closures", !.i = 0, !.visited = {},
                             !.entries = entryFiles(g)])

\* line 333: the file is on the path of this traversal
DepthOnPath ==
    /\ Running("depths")
    /\ LET t == analysis[1]
       IN  /\ t.stack # <<>>
           /\ Top(t.stack).k = 0
           /\ OnCurrentPath(t, Top(t.stack).node)
           /\ Step([t EXCEPT !.stack = Return(@, 0)])

\* line 334: the depth of the file is known
DepthKnown ==
    /\ Running("depths")
    /\ LET t == analysis[1]
       IN  /\ t.stack # <<>>
           /\ Top(t.stack).k = 0
           /\ ~OnCurrentPath(t, Top(t.stack).node)
           /\ Top(t.stack).node \in Range(t.depths.keys)
           /\ Step([t EXCEPT !.stack = Return(@, t.depths.val[Top(t.stack).node])])

\* lines 336-341: a file without dependencies
DepthLeaf ==
    /\ Running("depths")
    /\ LET t == analysis[1]  g == graph[1]
       IN  /\ t.stack # <<>>
           /\ Top(t.stack).k = 0
           /\ ~OnCurrentPath(t, Top(t.stack).node)
           /\ Top(t.stack).node \notin Range(t.depths.keys)
           /\ Deps(g, Top(t.stack).node) = <<>>
           /\ Step([t EXCEPT !.visited = @ \cup {Top(t.stack).node},
                             !.depths = MapSet(@, Top(t.stack).node, 0),
                             !.stack = Return(@, 0)])

\* lines 336-343: a file with dependencies
DepthEnter ==
    /\ Running("depths")
    /\ LET t == analysis[1]  g == graph[1]
       IN  /\ t.stack # <<>>
           /\ Top(t.stack).k = 0
           /\ ~OnCurrentPath(t, Top(t.stack).node)
           /\ Top(t.stack).node \notin Range(t.depths.keys)
           /\ Deps(g, Top(t.stack).node) # <<>>
           /\ Step([t EXCEPT !.visited = @ \cup {Top(t.stack).node},
                             !.stack = SetTop(@, [Top(t.stack) EXCEPT !.k = 1])])

\* lines 344-346: getDepth(dep, visited) for the next dependency
DepthCall ==
    /\ Running("depths")
    /\ LET t == analysis[1]  g == graph[1]
       IN  /\ t.stack # <<>>
           /\ Top(t.stack).k >= 1
           /\ Top(t.stack).k <= Len(Deps(g, Top(t.stack).node))
           /\ Len(t.stack) < MaxStack
           /\ LET frame == Top(t.stack)
              IN  Step([t EXCEPT
                           !.stack = Append(SetTop(@, [frame EXCEPT !.k = @ + 1]),
                                            Frame(Deps(g, frame.node)[frame.k], <<>>))])

\* lines 348-351
DepthReturn ==
    /\ Running("depths")
    /\ LET t == analysis[1]  g == graph[1]
       IN  /\ t.stack # <<>>
           /\ Top(t.stack).k > Len(Deps(g, Top(t.stack).node))
           /\ LET frame == Top(t.stack)
                  depth == frame.maxChildDepth + 1
              IN  Step([t EXCEPT !.depths = MapSet(@, frame.node, depth),
                                 !.visited = @ \ {frame.node},
                                 !.stack = Return(@, depth)])

\* lines 398-400: the next entry file
ClosureStart ==
    /\ Running("closures")
    /\ LET t == analysis[1]
       IN  /\ ~t.looping
           /\ t.i < Len(t.entries)
           /\ Step([t EXCEPT !.i = @ + 1, !.visited = {}, !.looping = TRUE,
                             !.queue = <<t.entries[t.i + 1]>>])

\* lines 402-403: the file popped was visited
ClosureSkip ==
    /\ Running("closures")
    /\ LET t == analysis[1]
       IN  /\ t.looping
           /\ t.queue # <<>>
           /\ Top(t.queue) \in t.visited
           /\ Step([t EXCEPT !.queue = Pop(@)])

\* lines 402-410
ClosureVisit ==
    /\ Running("closures")
    /\ LET t == analysis[1]  g == graph[1]
       IN  /\ t.looping
           /\ t.queue # <<>>
           /\ Top(t.queue) \notin t.visited
           /\ Step([t EXCEPT !.visited = @ \cup {Top(t.queue)},
                             !.queue = Pop(@) \o Deps(g, Top(t.queue))])

\* line 412
ClosureSet ==
    /\ Running("closures")
    /\ LET t == analysis[1]
       IN  /\ t.looping
           /\ t.queue = <<>>
           /\ Step([t EXCEPT !.looping = FALSE,
                             !.transitiveImports =
                                 MapSet(@, t.entries[t.i], Cardinality(t.visited))])

\* the loop over the entry files has ended
ClosuresEnd ==
    /\ Running("closures")
    /\ LET t == analysis[1]
       IN  /\ ~t.looping
           /\ t.i = Len(t.entries)
           /\ Step([t EXCEPT !.pc = "done"])

NextTraverse ==
    \/ BuildGraph
    \/ CyclesStart
    \/ CyclesEnd
    \/ DfsCycle
    \/ DfsVisited
    \/ DfsEnter
    \/ DfsCall
    \/ DfsReturn
    \/ DepthsStart
    \/ DepthsEnd
    \/ DepthOnPath
    \/ DepthKnown
    \/ DepthLeaf
    \/ DepthEnter
    \/ DepthCall
    \/ DepthReturn
    \/ ClosureStart
    \/ ClosureSkip
    \/ ClosureVisit
    \/ ClosureSet
    \/ ClosuresEnd

\* the analyzers run to their end without interruption: a step that can be
\* taken is taken
SpecTraverse == InitTraverse /\ [][NextTraverse]_vars /\ WF_vars(NextTraverse)

\* the three traversals have returned, with the cycles, depths and closure
\* sizes of findCycles, importDepths and transitiveImports
Traversed ==
    /\ Running("done")
    /\ analysis[1].cycles = findCycles(graph[1])
    /\ analysis[1].depths = importDepths(graph[1])
    /\ analysis[1].transitiveImports = transitiveImports(graph[1])

(* C26: the graph traversals terminate on every finite import graph,       *)
(* graphs with cycles and self-imports included: the cycle-detection DFS   *)
(* restarted from every node, the memoised depth recursion with its        *)
(* per-path guard and the closure traversal from each entry file each      *)
(* reach completion and return a result.                                   *)
C26_TraversalsTerminate == <>Traversed

\* every file imports itself and the two other files, and the traversals
\* have returned
C26_Witness ==
    /\ Traversed
    /\ \A x \in Nodes(graph[1]) : Successors(graph[1], x) = Nodes(graph[1])
    /\ Len(analysis[1].cycles) > 3
    /\ \A x \in Entries(graph[1]) : analysis[1].transitiveImports.val[x] = 3

====
